---- MODULE Spec2Model ----
(***************************************************************************)
(* Model of the terminal interaction engine of cli-ai (src/ui.py): the raw *)
(* keyboard reader (KeyboardInput), the gesture-based review interface     *)
(* (InteractiveCommandInterface) and the command-line editor               *)
(* (CommandEditor).                                                        *)
(*                                                                         *)
(* Text is modelled as a sequence of one-character strings.  Control bytes *)
(* are written by name: "ESC" = \x1b, "CR" = \r, "LF" = \n, "TAB" = \t,    *)
(* "^C" = \x03, "^A" = \x01, "^D" = \x04, "^U" = \x15, "^K" = \x0b,        *)
(* "^W" = \x17, "^_" = \x1f, "BS" = \x08, "DEL" = \x7f.                    *)
(***************************************************************************)
EXTENDS Integers, Sequences, FiniteSets, TLC

VARIABLES
    pc,                 \* position of the main thread in the running call
    api,                \* entry point being run: "none", "process", "edit"
    status,             \* "idle", "running", "returned", "raised"
    result,             \* Optional[str] returned by the call
    exc,                \* name of the exception a raised call ended with
    suggestion,         \* the CommandSuggestion under review
    key,                \* value of the last read_key() call
    selection,          \* local of show_alternatives
    panel,              \* last panel drawn by display_command_preview
    notice,             \* message the review loop printed since the last panel
    clipboard,          \* content of the system clipboard
    termMode,           \* mode of the controlling terminal
    modeAtCall,         \* terminal mode when the running call was entered
    switched,           \* a session of the running call put the terminal in raw mode
    original_settings,  \* KeyboardInput.original_settings of the open session
    session,            \* TRUE while a `with KeyboardInput()` block is open
    isatty,             \* sys.stdin.isatty()
    stdin,              \* bytes typed and not yet read
    eof,                \* standard input has been closed
    ed,                 \* the CommandEditor object
    assistant,          \* the running AIAssistant.process_command and its loader thread
    environ,            \* os.environ, the platform and the standard streams' isatty()
    terminal_caps,      \* result of the last capability detection
    box,                \* the last call of _draw_box and the rows it printed
    noticeMode,         \* mode the terminal was in when `notice` was printed
    launcher,           \* the running launcher.main and the assistants it ran
    config_file         \* ~/.cli_ai_assistant/config and the last update_config call

vars == <<pc, api, status, result, exc, suggestion, key, selection, panel,
          notice, clipboard, termMode, modeAtCall, switched,
          original_settings, session, isatty, stdin, eof, ed, assistant,
          environ, terminal_caps, box, noticeMode, launcher, config_file>>

----------------------------------------------------------------------------
(* Bounds of the model *)

MaxTypeahead == 0      \* a key can be typed while at most this many bytes wait
MaxInitial == 2        \* length of the texts an edit session is started on
MaxLen == 3            \* length of the buffer beyond which no character is typed
MaxTokens == 3         \* number of words in the command texts that are assessed
MaxFrames == 2         \* loader frames counted; further frames are not told apart
MaxPieces == 3         \* number of pieces a content line of a box is made of
MaxWidth == 9          \* widest box drawn
MaxLines == 2          \* number of lines of the configuration files that are updated

----------------------------------------------------------------------------
(* Optional values *)

None == [none |-> TRUE, val |-> <<>>]
Some(s) == [none |-> FALSE, val |-> s]

Min(a, b) == IF a < b THEN a ELSE b
Max(a, b) == IF a < b THEN b ELSE a

\* s[a..b] for 1-based inclusive bounds, empty when b < a
Slice(s, a, b) == IF b < a THEN <<>> ELSE SubSeq(s, a, b)

----------------------------------------------------------------------------
(* KeyCode, src/ui.py:44-69 *)

TAB == <<"TAB">>
SHIFT_TAB == <<"ESC", "[", "Z">>
ENTER == <<"CR">>
NEWLINE == <<"LF">>
ESC == <<"ESC">>
CTRL_C == <<"^C">>
CTRL_E == <<"^E">>
CTRL_A == <<"^A">>
CTRL_H == <<"BS">>
CTRL_D == <<"^D">>
CTRL_U == <<"^U">>
CTRL_K == <<"^K">>
CTRL_L == <<"^L">>
CTRL_QUESTION == <<"^_">>
BACKSPACE == <<"DEL">>
DELETE == <<"ESC", "[", "3", "~">>
UP_ARROW == <<"ESC", "[", "A">>
DOWN_ARROW == <<"ESC", "[", "B">>
LEFT_ARROW == <<"ESC", "[", "D">>
RIGHT_ARROW == <<"ESC", "[", "C">>
HOME == <<"ESC", "[", "H">>
END == <<"ESC", "[", "F">>
PAGE_UP == <<"ESC", "[", "5", "~">>
PAGE_DOWN == <<"ESC", "[", "6", "~">>

\* keys edit_command compares with literally, src/ui.py:431,446,473,488,519
CTRL_LEFT == <<"ESC", "[", "1", ";", "5", "D">>
CTRL_RIGHT == <<"ESC", "[", "1", ";", "5", "C">>
CTRL_W == <<"^W">>
CTRL_DELETE == <<"ESC", "[", "3", ";", "5", "~">>
INSERT == <<"ESC", "[", "2", "~">>

Digits == {"0", "1", "2", "3", "4", "5", "6", "7", "8", "9"}

----------------------------------------------------------------------------
(* Characters and case folding (str.lower, str.isspace, regex \s \w \b) *)

LowerCase == <<"a", "b", "c", "d", "e", "f", "g", "h", "i", "j", "k", "l", "m",
               "n", "o", "p", "q", "r", "s", "t", "u", "v", "w", "x", "y", "z">>
UpperCase == <<"A", "B", "C", "D", "E", "F", "G", "H", "I", "J", "K", "L", "M",
               "N", "O", "P", "Q", "R", "S", "T", "U", "V", "W", "X", "Y", "Z">>

Lower(c) ==
    IF \E i \in 1..26 : UpperCase[i] = c
    THEN LowerCase[CHOOSE i \in 1..26 : UpperCase[i] = c]
    ELSE c

LowerText(s) == [i \in 1..Len(s) |-> Lower(s[i])]

Whitespace == {" ", "TAB", "LF", "CR", "^K", "^L", "^_"}
IsSpace(c) == c \in Whitespace

IsWordChar(c) ==
    \/ \E i \in 1..26 : LowerCase[i] = c \/ UpperCase[i] = c
    \/ c \in Digits
    \/ c = "_"

\* lit occurs in s at index i, letters compared as they are
LitAt_exact(s, i, lit) ==
    /\ i >= 1 /\ i + Len(lit) - 1 <= Len(s)
    /\ \A j \in 1..Len(lit) : s[i + j - 1] = lit[j]

\* lit occurs in s at index i, letters compared without case (re.IGNORECASE)
LitAt(s, i, lit) ==
    /\ i >= 1
    /\ i + Len(lit) - 1 <= Len(s)
    /\ \A j \in 1..Len(lit) : Lower(s[i + j - 1]) = Lower(lit[j])

\* \b between s[i-1] and s[i]
WordBoundary(s, i) ==
    LET before == i >= 2 /\ i - 1 <= Len(s) /\ IsWordChar(s[i - 1])
        after == i >= 1 /\ i <= Len(s) /\ IsWordChar(s[i])
    IN  before # after

\* every character of s[a..b] is white space (vacuous when b < a)
AllSpace(s, a, b) == \A j \in a..b : IsSpace(s[j])
\* no character of s[a..b] is a newline: what `.*` can match
NoNewline(s, a, b) == \A j \in a..b : s[j] # "LF"

\* \b<word>   and   \b<word>\b
WordStart(s, word) ==
    \E i \in 1..Len(s) : WordBoundary(s, i) /\ LitAt(s, i, word)
WholeWord(s, word) ==
    \E i \in 1..Len(s) :
        /\ WordBoundary(s, i) /\ LitAt(s, i, word)
        /\ WordBoundary(s, i + Len(word))

\* \b<word>\s+<tail>
WordSpaceLit(s, word, tail) ==
    \E i \in 1..Len(s) :
        /\ WordBoundary(s, i) /\ LitAt(s, i, word)
        /\ \E m \in (i + Len(word) + 1)..Len(s) :
              /\ AllSpace(s, i + Len(word), m - 1)
              /\ LitAt(s, m, tail)

\* \b<word>\s+   (the empty tail of WordSpaceLit: one white space suffices)
WordSpace(s, word) ==
    \E i \in 1..Len(s) :
        /\ WordBoundary(s, i) /\ LitAt(s, i, word)
        /\ i + Len(word) <= Len(s)
        /\ IsSpace(s[i + Len(word)])

\* \b<word>\s+.*<tail>
WordSpaceAnyLit(s, word, tail) ==
    \E i \in 1..Len(s) :
        /\ WordBoundary(s, i) /\ LitAt(s, i, word)
        /\ \E m \in (i + Len(word) + 1)..(Len(s) + 1) :
              /\ AllSpace(s, i + Len(word), m - 1)
              /\ \E k \in m..Len(s) :
                    NoNewline(s, m, k - 1) /\ LitAt(s, k, tail)

\* \bmv\s+.*\s+/dev/null
MvToNull(s) ==
    \E i \in 1..Len(s) :
        /\ WordBoundary(s, i) /\ LitAt(s, i, <<"m", "v">>)
        /\ \E m \in (i + 3)..(Len(s) + 1) :
              /\ AllSpace(s, i + 2, m - 1)
              /\ \E k \in m..Len(s) : \E n \in (k + 1)..Len(s) :
                    /\ NoNewline(s, m, k - 1)
                    /\ AllSpace(s, k, n - 1)
                    /\ LitAt(s, n, <<"/", "d", "e", "v", "/", "n", "u", "l", "l">>)

\* >\s*/dev/
RedirectToDev(s) ==
    \E i \in 1..Len(s) :
        /\ s[i] = ">"
        /\ \E m \in (i + 1)..Len(s) :
              AllSpace(s, i + 1, m - 1) /\ LitAt(s, m, <<"/", "d", "e", "v", "/">>)

\* >\s*[^|&;]*$
RedirectToFile(s) ==
    \E i \in 1..Len(s) :
        /\ s[i] = ">"
        /\ \A j \in (i + 1)..Len(s) : s[j] \notin {"|", "&", ";"}

\* lit in s
Contains(s, lit) == \E i \in 1..Len(s) : i + Len(lit) - 1 <= Len(s) /\ Slice(s, i, i + Len(lit) - 1) = lit

----------------------------------------------------------------------------
(* Risk assessor, src/ui.py:626-660 *)

dangerous_patterns(c) ==
    \/ WordSpaceAnyLit(c, <<"r", "m">>, <<"-", "r">>)
    \/ WordSpace(c, <<"d", "d">>)
    \/ WordStart(c, <<"m", "k", "f", "s", ".">>)
    \/ WholeWord(c, <<"f", "o", "r", "m", "a", "t">>)
    \/ WholeWord(c, <<"f", "d", "i", "s", "k">>)
    \/ WholeWord(c, <<"s", "h", "r", "e", "d">>)
    \/ WordSpaceLit(c, <<"c", "h", "m", "o", "d">>, <<"7", "7", "7">>)
    \/ WordSpaceAnyLit(c, <<"c", "h", "o", "w", "n">>, <<"r", "o", "o", "t">>)
    \/ RedirectToDev(c)
    \/ WordSpaceLit(c, <<"c", "r", "o", "n", "t", "a", "b">>, <<"-", "r">>)
    \/ WordSpaceLit(c, <<"i", "p", "t", "a", "b", "l", "e", "s">>, <<"-", "F">>)

destructive_patterns(c) ==
    \/ WordSpaceAnyLit(c, <<"r", "m">>, <<"/">>)
    \/ MvToNull(c)
    \/ WordSpace(c, <<"t", "r", "u", "n", "c", "a", "t", "e">>)
    \/ RedirectToFile(c)

\* (risk_level, is_destructive)
_assess_command_risk(c) ==
    IF dangerous_patterns(c) THEN <<"HIGH", TRUE>>
    ELSE IF destructive_patterns(c) THEN <<"MEDIUM", TRUE>>
    ELSE IF Contains(LowerText(c), <<"s", "u", "d", "o">>) THEN <<"MEDIUM", FALSE>>
    ELSE <<"LOW", FALSE>>

----------------------------------------------------------------------------
(* Command texts used as inputs *)

T_empty == <<>>
T_ls == <<"l", "s", " ", "-", "l", "a">>
T_rm_old == <<"r", "m", " ", "-", "r", "f", " ", "/", "v", "a", "r", "/",
              "l", "o", "g", "/", "o", "l", "d">>
T_rm_old_star == T_rm_old \o <<"*">>
T_sudo_ls == <<"s", "u", "d", "o", " ", "l", "s">>
T_pwd == <<"p", "w", "d">>
T_accept_ls == <<"A", "C", "C", "E", "P", "T", ":", "l", "s">>

----------------------------------------------------------------------------
(* Raw keyboard reader, src/ui.py:160-304 *)

\* KeyboardInput._read_key_unix with no timeout (src/ui.py:258-293): one byte,
\* and after an escape byte whatever a non-blocking read(2) finds waiting.
\* At end of input read(1) yields the empty string.
_read_key_unix(in) ==
    IF in = <<>> THEN [key |-> <<>>, rest |-> <<>>]
    ELSE IF Head(in) = "ESC"
         THEN LET n == Min(2, Len(in) - 1)
              IN  [key |-> Slice(in, 1, 1 + n), rest |-> Slice(in, 2 + n, Len(in))]
         ELSE [key |-> <<Head(in)>>, rest |-> Tail(in)]

\* index of the first line end of in, 0 when there is none; sys.stdin is
\* read in universal-newlines mode, so a carriage return ends a line too
FirstNewline(in) ==
    IF \E i \in 1..Len(in) : in[i] \in {"LF", "CR"}
    THEN CHOOSE i \in 1..Len(in) :
            in[i] \in {"LF", "CR"} /\ \A j \in 1..(i - 1) : in[j] \notin {"LF", "CR"}
    ELSE 0

\* input() (src/ui.py:191): a whole line without its line end; at end of
\* input the unterminated rest of the stream
input(in) ==
    LET n == FirstNewline(in)
        m == IF n > 0 /\ n < Len(in) /\ in[n] = "CR" /\ in[n + 1] = "LF" THEN n + 1 ELSE n
    IN  IF n > 0
        THEN [key |-> Slice(in, 1, n - 1), rest |-> Slice(in, m + 1, Len(in))]
        ELSE [key |-> in, rest |-> <<>>]

\* read_key() can return now: a byte is waiting or the input has ended;
\* input() needs a full line or the end of input
CanRead ==
    IF isatty THEN stdin # <<>> \/ eof
    ELSE FirstNewline(stdin) > 0 \/ eof

\* input() raises EOFError when the input has ended with nothing left
ReadRaises == ~isatty /\ eof /\ stdin = <<>>

\* the value of `key` after a read_key() that returned None
KeyNone == <<"None">>

\* KeyboardInput._read_key_unix with a timeout that is given (src/ui.py:253-277),
\* once the first select has reported input: one byte, and after an escape
\* byte one more byte for each further select that reports input within 0.1 s
\* (a second byte, a third after ESC [, a fourth after a digit). ready is the
\* number of these selects that report input: select looks at the descriptor,
\* not at what sys.stdin has already buffered.
_read_key_unix_timed(in, ready) ==
    IF Head(in) # "ESC" THEN [key |-> <<Head(in)>>, rest |-> Tail(in)]
    ELSE LET n1 == IF ready >= 1 /\ Len(in) >= 2 THEN 1 ELSE 0
             n2 == IF n1 = 1 /\ in[2] = "[" /\ ready >= 2 /\ Len(in) >= 3 THEN 1 ELSE 0
             n3 == IF n2 = 1 /\ in[3] \in Digits /\ ready >= 3 /\ Len(in) >= 4 THEN 1 ELSE 0
             n == 1 + n1 + n2 + n3
         IN  [key |-> Slice(in, 1, n), rest |-> Slice(in, n + 1, Len(in))]

\* KeyboardInput.read_key, src/ui.py:188-206
read_key == IF isatty THEN _read_key_unix(stdin) ELSE input(stdin)

\* KeyboardInput._setup_terminal (src/ui.py:168-178): ok is whether
\* tcgetattr and setraw succeeded
SetupTerminal(ok) ==
    IF isatty /\ ok
    THEN /\ original_settings' = termMode
         /\ termMode' = "raw"
         /\ switched' = TRUE
    ELSE /\ original_settings' = "None"
         /\ UNCHANGED <<termMode, switched>>

\* a release that leaves the terminal as it is
_restore_terminal_skipped == termMode

\* the mode KeyboardInput._restore_terminal leaves (src/ui.py:180-186)
_restore_terminal ==
    IF original_settings # "None" /\ isatty THEN original_settings ELSE termMode

\* KeyboardInput.__exit__, src/ui.py:303-304
CloseSession ==
    /\ termMode' = _restore_terminal
    /\ original_settings' = "None"
    /\ session' = FALSE

----------------------------------------------------------------------------
(* Inputs *)

\* keys the user can press, as the bytes the terminal sends for them
UserKeys == {ENTER, NEWLINE, TAB, CTRL_C, CTRL_A, ESC, <<"?">>,
             <<"1">>, <<"2">>, DELETE}

Suggestion(c, e, alts, hints) ==
    [command |-> c, explanation |-> e, risk_level |-> "", alternatives |-> alts,
     context_hints |-> hints,
     requires_sudo |-> Contains(LowerText(c), <<"s", "u", "d", "o">>),
     is_destructive |-> \E d \in {<<"r", "m", " ">>, <<"r", "m", "d", "i", "r">>,
                                  <<"d", "d", " ">>, <<"m", "k", "f", "s">>,
                                  <<"f", "o", "r", "m", "a", "t">>} :
                           Contains(LowerText(c), d)]

\* suggestions the orchestrator hands to the review (src/assistant.py:326-335)
Suggestions == {
    Suggestion(T_ls, "Lists files", <<>>, <<>>),
    Suggestion(T_rm_old, "", <<T_rm_old_star>>, <<"Check the path">>),
    Suggestion(T_ls, "", <<T_rm_old_star, T_sudo_ls>>, <<>>),
    Suggestion(T_sudo_ls, "Lists files as root", <<T_empty, T_ls>>, <<>>),
    Suggestion(T_accept_ls, "", <<>>, <<>>) }

\* the process environment while no capability detection is looked at
NoEnviron == [system |-> "Linux"]
NoCaps == [detector |-> "none", supports_color |-> FALSE]
NoBox == [width |-> 0, content |-> <<>>, rows |-> <<>>]
NoLauncher == [pc |-> "idle", is_interactive |-> FALSE, ui_available |-> FALSE,
               info_request |-> FALSE, ui_event |-> "", original_event |-> "",
               ran |-> <<>>, printed |-> <<>>, exit_status |-> -1]
NoConfig == [exists |-> FALSE, content |-> <<>>, key |-> "", value |-> ""]

\* AIAssistant before process_command is called: no loader thread, nothing
\* printed, nothing executed
NoAssistant ==
    [pc |-> "idle", simple_mode |-> FALSE, stop_event |-> FALSE,
     loader_thread |-> "unstarted", frames |-> 0, in_flight |-> "",
     returned |-> "", executed |-> <<>>, exec_failed |-> FALSE, printed |-> {}]

NoPanel == [command |-> <<>>, banner |-> "none", hints |-> <<>>, offers_alternatives |-> FALSE]
NoSuggestion == Suggestion(<<>>, "", <<>>, <<>>)

\* str.isdigit and int() on a text of ASCII digits
isdigit(s) == s # <<>> /\ \A i \in 1..Len(s) : s[i] \in Digits
DigitValue(c) == CHOOSE n \in 0..9 : <<"0", "1", "2", "3", "4", "5", "6", "7", "8", "9">>[n + 1] = c
RECURSIVE int(_)
int(s) == IF s = <<>> THEN 0 ELSE 10 * int(Slice(s, 1, Len(s) - 1)) + DigitValue(s[Len(s)])

----------------------------------------------------------------------------
(* Environment *)

\* the bytes key k puts on standard input: a terminal sends the key, a
\* redirected input holds it as a line
Typed(k) == IF isatty THEN k ELSE k \o <<"LF">>

Press(k) ==
    /\ ~eof
    /\ Len(stdin) <= MaxTypeahead
    /\ stdin' = stdin \o Typed(k)
    /\ UNCHANGED <<pc, api, status, result, exc, suggestion, key, selection, panel,
                   notice, clipboard, termMode, modeAtCall, switched, original_settings,
                   session, isatty, eof, ed>>
    /\ UNCHANGED <<assistant, environ, terminal_caps, box, noticeMode, launcher,
                   config_file>>

CloseStdin ==
    /\ ~eof
    /\ eof' = TRUE
    /\ UNCHANGED <<pc, api, status, result, exc, suggestion, key, selection, panel,
                   notice, clipboard, termMode, modeAtCall, switched, original_settings,
                   session, isatty, stdin, ed>>
    /\ UNCHANGED <<assistant, environ, terminal_caps, box, noticeMode, launcher,
                   config_file>>

----------------------------------------------------------------------------
(* Gesture-based review interface, src/ui.py:701-948 *)

\* the risk banner display_command_preview adds (src/ui.py:717-730)
Banner(c) == _assess_command_risk(c)[1]

\* a panel that keeps the banner of the first render
display_command_preview_cached(s) ==
    [command |-> s.command,
     banner |-> IF panel = NoPanel THEN Banner(s.command) ELSE panel.banner,
     hints |-> s.context_hints,
     offers_alternatives |-> s.alternatives # <<>>]

\* display_command_preview: what the panel draws from (src/ui.py:701-812)
display_command_preview(s) ==
    [command |-> s.command,
     banner |-> Banner(s.command),
     hints |-> s.context_hints,
     offers_alternatives |-> s.alternatives # <<>>]

\* the orchestrator calls process_command_interaction(s)
CallProcess(s) ==
    /\ status = "idle"
    /\ api' = "process"
    /\ status' = "running"
    /\ suggestion' = s
    /\ pc' = "display"
    /\ result' = None
    /\ exc' = ""
    /\ panel' = NoPanel
    /\ notice' = ""
    /\ modeAtCall' = termMode
    /\ switched' = FALSE
    /\ UNCHANGED <<key, selection, clipboard, termMode, original_settings,
                   session, isatty, stdin, eof, ed>>
    /\ UNCHANGED <<assistant, environ, terminal_caps, box, launcher, config_file>>
    /\ noticeMode' = "none"

\* top of the loop: draw the panel (src/ui.py:892), then handle_gesture_input
\* opens its KeyboardInput (src/ui.py:816)
Display ==
    /\ pc = "display"
    /\ panel' = display_command_preview(suggestion)
    /\ \E ok \in BOOLEAN : SetupTerminal(ok)
    /\ session' = TRUE
    /\ pc' = "gesture_read"
    /\ notice' = ""
    /\ UNCHANGED <<api, status, result, exc, suggestion, key, selection,
                   clipboard, modeAtCall, isatty, stdin, eof, ed>>
    /\ UNCHANGED <<assistant, environ, terminal_caps, box, launcher, config_file>>
    /\ noticeMode' = "none"

\* the call ends by returning v
Return(v) ==
    /\ result' = v
    /\ status' = "returned"
    /\ pc' = "done"
    /\ UNCHANGED exc

\* an exception leaves the `with` block and the call
Raise(e) ==
    /\ CloseSession
    /\ exc' = e
    /\ status' = "raised"
    /\ pc' = "done"
    /\ UNCHANGED result

\* the accept action returned like the execute action
ACCEPT_dropped == <<>>

\* the prefix of the accept action's result (src/ui.py:902)
ACCEPT == <<"A", "C", "C", "E", "P", "T", ":">>

\* Ctrl+A without alternatives ignored like any other key
handle_gesture_input_silent(k, s) ==
    IF k = ENTER \/ k = NEWLINE THEN <<"execute", Some(s.command)>>
    ELSE IF k = TAB THEN <<"accept", Some(s.command)>>
    ELSE IF k = CTRL_C THEN <<"clipboard", Some(s.command)>>
    ELSE IF k = CTRL_A /\ s.alternatives # <<>> THEN <<"alternatives", None>>
    ELSE IF k = ESC THEN <<"cancel", None>>
    ELSE IF k = CTRL_QUESTION \/ k = <<"?">> THEN <<"help", None>>
    ELSE <<"loop", None>>

\* handle_gesture_input: the (action, result) it returns on key k, or "loop"
\* when the key is no gesture and the read is repeated (src/ui.py:822-849)
handle_gesture_input(k, s) ==
    IF k = ENTER \/ k = NEWLINE THEN <<"execute", Some(s.command)>>
    ELSE IF k = TAB THEN <<"accept", Some(s.command)>>
    ELSE IF k = CTRL_C THEN <<"clipboard", Some(s.command)>>
    ELSE IF k = CTRL_A THEN
        IF s.alternatives # <<>> THEN <<"alternatives", None>> ELSE <<"redraw", None>>
    ELSE IF k = ESC THEN <<"cancel", None>>
    ELSE IF k = CTRL_QUESTION \/ k = <<"?">> THEN <<"help", None>>
    ELSE <<"loop", None>>

\* CrossPlatformUtils.copy_to_clipboard refuses an empty text
\* (src/cross_platform_utils.py:280-281); otherwise the utility decides
CopyOutcomes(text) == IF text = <<>> THEN {FALSE} ELSE BOOLEAN

\* handle_gesture_input on key k followed by the branch
\* process_command_interaction takes on its answer (src/ui.py:897-928)
\* the mode of the terminal for a message printed inside the `with
\* KeyboardInput()` block of handle_gesture_input (src/ui.py:816, 839)
printed_in_session == termMode

\* a message printed before the session is left
printed_after_session_early == termMode

\* the mode of the terminal for a message printed once handle_gesture_input
\* has returned and __exit__ has run (src/ui.py:895, 904-909)
printed_after_session == _restore_terminal

Gesture(k) ==
    LET action == handle_gesture_input(k, suggestion)[1]
        res == handle_gesture_input(k, suggestion)[2]
    IN
    /\ key' = k
    /\ IF action = "execute" THEN
          /\ CloseSession
          /\ Return(res)
          /\ UNCHANGED <<suggestion, panel, notice, clipboard>>
       ELSE IF action = "accept" THEN
          /\ CloseSession
          /\ Return(Some(ACCEPT \o res.val))
          /\ UNCHANGED <<suggestion, panel, notice, clipboard>>
       ELSE IF action = "clipboard" THEN
          /\ CloseSession
          /\ \E copied \in CopyOutcomes(res.val) :
                /\ clipboard' = IF copied THEN res.val ELSE clipboard
                /\ notice' = IF copied THEN "Command copied to clipboard"
                                       ELSE "Could not copy to clipboard"
          /\ Return(None)
          /\ UNCHANGED <<suggestion, panel>>
       ELSE IF action = "alternatives" THEN
          /\ CloseSession
          /\ pc' = "alternatives"
          /\ UNCHANGED <<status, result, exc, suggestion, panel, notice, clipboard>>
       ELSE IF action = "cancel" THEN
          /\ CloseSession
          /\ Return(None)
          /\ UNCHANGED <<suggestion, panel, notice, clipboard>>
       ELSE IF action = "help" THEN
          /\ CloseSession
          /\ pc' = "help"
          /\ UNCHANGED <<status, result, exc, suggestion, panel, notice, clipboard>>
       ELSE IF action = "redraw" THEN
          /\ notice' = "No alternatives available"
          /\ CloseSession
          /\ panel' = NoPanel
          /\ pc' = "display"
          /\ UNCHANGED <<status, result, exc, suggestion, clipboard>>
       ELSE
          UNCHANGED <<pc, status, result, exc, suggestion, panel, notice, clipboard,
                      termMode, original_settings, session>>
    /\ UNCHANGED <<api, selection, modeAtCall, switched, isatty, eof, ed>>
    /\ noticeMode' = IF action = "clipboard" THEN printed_after_session
                     ELSE IF action = "redraw" THEN printed_in_session
                     ELSE noticeMode

\* AwaitingGesture: one read_key and the gesture it is
ReadGesture ==
    /\ pc = "gesture_read"
    /\ CanRead /\ ~ReadRaises
    /\ stdin' = read_key.rest
    /\ Gesture(read_key.key)
    /\ UNCHANGED <<assistant, environ, terminal_caps, box, launcher, config_file>>

\* a SIGINT that arrives during the read: _read_key_unix reports it as
\* Ctrl+C (src/ui.py:295-296), input() lets KeyboardInterrupt through
InterruptGesture ==
    /\ pc = "gesture_read"
    /\ UNCHANGED stdin
    /\ IF isatty
       THEN Gesture(CTRL_C)
       ELSE /\ Raise("KeyboardInterrupt")
            /\ UNCHANGED <<api, suggestion, key, selection, panel, notice, clipboard,
                           modeAtCall, switched, isatty, eof, ed, noticeMode>>
    /\ UNCHANGED <<assistant, environ, terminal_caps, box, launcher, config_file>>

\* input() at end of input (src/ui.py:191)
EndOfInput ==
    /\ pc \in {"gesture_read", "alternatives_read", "help_read"}
    /\ ReadRaises
    /\ Raise("EOFError")
    /\ UNCHANGED <<api, suggestion, key, selection, panel, notice, clipboard,
                   modeAtCall, switched, isatty, stdin, eof, ed>>
    /\ UNCHANGED <<assistant, environ, terminal_caps, box, noticeMode, launcher,
                   config_file>>

\* show_alternatives lists the commands and opens its KeyboardInput
\* (src/ui.py:857-867)
ShowAlternatives ==
    /\ pc = "alternatives"
    /\ IF suggestion.alternatives = <<>>
       THEN /\ pc' = "display"
            /\ UNCHANGED <<termMode, switched, original_settings, session, selection>>
       ELSE /\ \E ok \in BOOLEAN : SetupTerminal(ok)
            /\ session' = TRUE
            /\ selection' = <<>>
            /\ pc' = "alternatives_read"
    /\ UNCHANGED <<api, status, result, exc, suggestion, key, panel, notice,
                   clipboard, modeAtCall, isatty, stdin, eof, ed>>
    /\ UNCHANGED <<assistant, environ, terminal_caps, box, noticeMode, launcher,
                   config_file>>

\* what show_alternatives returns on Enter (src/ui.py:873-878)
Selected ==
    IF isdigit(selection)
       /\ 0 <= int(selection) - 1
       /\ int(selection) - 1 < Len(suggestion.alternatives)
    THEN Some(suggestion.alternatives[int(selection)])
    ELSE None

\* `if selected:` (src/ui.py:915): neither None nor the empty string
Truthy(v) == ~v.none /\ v.val # <<>>

\* a selection that also uses up the list of alternatives
select_alternative_consuming(s, v) ==
    IF Truthy(v) THEN [s EXCEPT !.command = v.val, !.alternatives = <<>>] ELSE s

\* the suggestion after show_alternatives returned v (src/ui.py:915-916)
select_alternative(s, v) == IF Truthy(v) THEN [s EXCEPT !.command = v.val] ELSE s

\* show_alternatives returns v and process_command_interaction goes on
\* (src/ui.py:914-917)
AfterAlternatives(v) ==
    /\ CloseSession
    /\ suggestion' = select_alternative(suggestion, v)
    /\ pc' = "display"

\* ShowingAlternatives: one read_key of the selection loop (src/ui.py:869-886)
ReadAlternative ==
    /\ pc = "alternatives_read"
    /\ CanRead /\ ~ReadRaises
    /\ stdin' = read_key.rest
    /\ key' = read_key.key
    /\ LET k == read_key.key IN
       IF k = ENTER \/ k = NEWLINE THEN
          /\ AfterAlternatives(Selected)
          /\ UNCHANGED <<selection, notice>>
       ELSE IF k = CTRL_C \/ k = ESC THEN
          /\ AfterAlternatives(None)
          /\ UNCHANGED <<selection, notice>>
       ELSE IF isdigit(k) THEN
          /\ selection' = k
          /\ UNCHANGED <<pc, suggestion, notice, termMode, original_settings, session>>
       ELSE
          UNCHANGED <<pc, suggestion, selection, notice, termMode,
                      original_settings, session>>
    /\ UNCHANGED <<api, status, result, exc, panel, clipboard, modeAtCall, switched,
                   isatty, eof, ed>>
    /\ UNCHANGED <<assistant, environ, terminal_caps, box, noticeMode, launcher,
                   config_file>>

\* _show_help draws the help box and opens its KeyboardInput (src/ui.py:930-947)
ShowHelp ==
    /\ pc = "help"
    /\ \E ok \in BOOLEAN : SetupTerminal(ok)
    /\ session' = TRUE
    /\ pc' = "help_read"
    /\ UNCHANGED <<api, status, result, exc, suggestion, key, selection, panel,
                   notice, clipboard, modeAtCall, isatty, stdin, eof, ed>>
    /\ UNCHANGED <<assistant, environ, terminal_caps, box, noticeMode, launcher,
                   config_file>>

\* a help screen whose key is handled like a gesture
ReadHelp_as_gesture ==
    /\ pc = "help_read"
    /\ CanRead /\ ~ReadRaises
    /\ stdin' = read_key.rest
    /\ Gesture(read_key.key)
    /\ UNCHANGED <<assistant, environ, terminal_caps, box, launcher, config_file>>

\* ShowingHelp: any key ends it (src/ui.py:947-948)
ReadHelp ==
    /\ pc = "help_read"
    /\ CanRead /\ ~ReadRaises
    /\ stdin' = read_key.rest
    /\ key' = read_key.key
    /\ CloseSession
    /\ pc' = "display"
    /\ UNCHANGED <<api, status, result, exc, suggestion, selection, panel, notice,
                   clipboard, modeAtCall, switched, isatty, eof, ed>>
    /\ UNCHANGED <<assistant, environ, terminal_caps, box, noticeMode, launcher,
                   config_file>>

----------------------------------------------------------------------------
(* Command-line editor, src/ui.py:306-534 *)

\* what a CommandEditor object defines: the attributes __init__ sets and the
\* methods of the class (src/ui.py:306-534)
CommandEditorAttributes ==
    {"terminal_caps", "colors", "cursor_pos", "command", "history",
     "history_index", "insert_mode", "__init__", "_syntax_highlight",
     "_draw_command_line", "edit_command"}

\* _draw_command_line calls self._can_display_unicode() (src/ui.py:348)
_draw_command_line_raises == "_can_display_unicode" \notin CommandEditorAttributes

\* CommandEditor.__init__, src/ui.py:309-316; with the object are kept the
\* argument of the running edit_command and, as a record of the past, the
\* buffer from which the history navigation under way was started
NewEditor ==
    [command |-> <<>>, cursor_pos |-> 0, history |-> <<>>, history_index |-> -1,
     insert_mode |-> TRUE, initial_command |-> <<>>, navigated_from |-> None]

InitialTexts == {s \in UNION {[1..n -> {"a", " "}] : n \in 0..MaxInitial} : TRUE}

\* edit_command(initial): src/ui.py:387-390, up to the KeyboardInput it opens
CallEdit(initial) ==
    /\ status = "idle"
    /\ api' = "edit"
    /\ status' = "running"
    /\ ed' = [ed EXCEPT !.command = initial, !.cursor_pos = Len(initial),
                        !.initial_command = initial, !.navigated_from = None]
    /\ \E ok \in BOOLEAN : SetupTerminal(ok)
    /\ session' = TRUE
    /\ modeAtCall' = termMode
    /\ result' = None
    /\ exc' = ""
    /\ pc' = "edit_draw"
    /\ UNCHANGED <<suggestion, key, selection, panel, notice, clipboard,
                   isatty, stdin, eof>>
    /\ UNCHANGED <<assistant, environ, terminal_caps, box, noticeMode, launcher,
                   config_file>>

\* top of the edit loop: _draw_command_line (src/ui.py:392)
EditDraw ==
    /\ pc = "edit_draw"
    /\ IF _draw_command_line_raises
       THEN Raise("AttributeError")
       ELSE /\ pc' = "edit_read"
            /\ UNCHANGED <<status, result, exc, termMode, original_settings, session>>
    /\ UNCHANGED <<api, suggestion, key, selection, panel, notice, clipboard,
                   modeAtCall, switched, isatty, stdin, eof, ed>>
    /\ UNCHANGED <<assistant, environ, terminal_caps, box, noticeMode, launcher,
                   config_file>>

\* bytes that are not printable characters (str.isprintable)
ControlBytes == {"ESC", "CR", "LF", "TAB", "BS", "DEL", "^A", "^C", "^D", "^E",
                 "^K", "^L", "^U", "^W", "^_"}
isprintable(c) == c \notin ControlBytes

\* `while pos > lo and command[pos].isspace() == sp: pos -= 1`
RECURSIVE BackWhile(_, _, _, _)
BackWhile(cmd, pos, sp, lo) ==
    IF pos > lo /\ IsSpace(cmd[pos + 1]) = sp
    THEN BackWhile(cmd, pos - 1, sp, lo)
    ELSE pos

\* `while pos < len(command) and command[pos].isspace() == sp: pos += 1`
RECURSIVE ForwardWhile(_, _, _)
ForwardWhile(cmd, pos, sp) ==
    IF pos < Len(cmd) /\ IsSpace(cmd[pos + 1]) = sp
    THEN ForwardWhile(cmd, pos + 1, sp)
    ELSE pos

\* command[:n] and command[n:]
Upto(cmd, n) == Slice(cmd, 1, n)
From(cmd, n) == Slice(cmd, n + 1, Len(cmd))

\* Backspace without the test for the start of the buffer
Backspace_unguarded(e) ==
    [e EXCEPT !.command = Upto(e.command, e.cursor_pos - 1) \o From(e.command, e.cursor_pos),
              !.cursor_pos = e.cursor_pos - 1]

\* Backspace, src/ui.py:412-416
Backspace(e) ==
    IF e.cursor_pos > 0
    THEN [e EXCEPT !.command = Upto(e.command, e.cursor_pos - 1) \o From(e.command, e.cursor_pos),
                   !.cursor_pos = e.cursor_pos - 1]
    ELSE e

\* Delete that also steps the cursor back, as Backspace does
DeleteChar_moving(e) ==
    IF e.cursor_pos < Len(e.command)
    THEN [e EXCEPT !.command = Upto(e.command, e.cursor_pos) \o From(e.command, e.cursor_pos + 1),
                   !.cursor_pos = Max(e.cursor_pos - 1, 0)]
    ELSE e

\* Delete, src/ui.py:418-421
DeleteChar(e) ==
    IF e.cursor_pos < Len(e.command)
    THEN [e EXCEPT !.command = Upto(e.command, e.cursor_pos) \o From(e.command, e.cursor_pos + 1)]
    ELSE e

\* Left arrow that erases the character it passes
CursorLeft_erasing(e) ==
    IF e.cursor_pos > 0
    THEN [e EXCEPT !.command = Upto(e.command, e.cursor_pos - 1) \o From(e.command, e.cursor_pos),
                   !.cursor_pos = e.cursor_pos - 1]
    ELSE e

\* Left and Right arrow, src/ui.py:423-429
CursorLeft(e) == IF e.cursor_pos > 0 THEN [e EXCEPT !.cursor_pos = e.cursor_pos - 1] ELSE e
CursorRight(e) ==
    IF e.cursor_pos < Len(e.command) THEN [e EXCEPT !.cursor_pos = e.cursor_pos + 1] ELSE e

\* Ctrl+Left, src/ui.py:431-444
WordLeft(e) ==
    IF e.cursor_pos > 0
    THEN LET p1 == BackWhile(e.command, e.cursor_pos - 1, TRUE, 0)
             p2 == BackWhile(e.command, p1, FALSE, 0)
             p3 == ForwardWhile(e.command, p2, TRUE)
         IN  [e EXCEPT !.cursor_pos = p3]
    ELSE e

\* Ctrl+Right, src/ui.py:446-456
WordRight(e) ==
    IF e.cursor_pos < Len(e.command)
    THEN LET p1 == ForwardWhile(e.command, e.cursor_pos, FALSE)
             p2 == ForwardWhile(e.command, p1, TRUE)
         IN  [e EXCEPT !.cursor_pos = p2]
    ELSE e

\* Ctrl+U that clears the whole buffer
KillToStart_all(e) == [e EXCEPT !.command = <<>>, !.cursor_pos = 0]

\* Ctrl+U and Ctrl+K, src/ui.py:464-471
KillToStart(e) == [e EXCEPT !.command = From(e.command, e.cursor_pos), !.cursor_pos = 0]
KillToEnd(e) == [e EXCEPT !.command = Upto(e.command, e.cursor_pos)]

\* Ctrl+W whose scans stop at index 0 as those of Ctrl+Left do
DeleteWordBefore_stop_at_zero(e) ==
    IF e.cursor_pos > 0
    THEN LET p1 == BackWhile(e.command, e.cursor_pos - 1, TRUE, 0)
             p2 == BackWhile(e.command, p1, FALSE, 0)
             pos == p2 + 1
         IN  [e EXCEPT !.command = Upto(e.command, pos) \o From(e.command, e.cursor_pos),
                       !.cursor_pos = pos]
    ELSE e

\* Ctrl+W, src/ui.py:473-486
DeleteWordBefore(e) ==
    IF e.cursor_pos > 0
    THEN LET p1 == BackWhile(e.command, e.cursor_pos - 1, TRUE, -1)
             p2 == BackWhile(e.command, p1, FALSE, -1)
             pos == p2 + 1
         IN  [e EXCEPT !.command = Upto(e.command, pos) \o From(e.command, e.cursor_pos),
                       !.cursor_pos = pos]
    ELSE e

\* Ctrl+Delete, src/ui.py:488-499
DeleteWordAfter(e) ==
    IF e.cursor_pos < Len(e.command)
    THEN LET p1 == ForwardWhile(e.command, e.cursor_pos, TRUE)
             pos == ForwardWhile(e.command, p1, FALSE)
         IN  [e EXCEPT !.command = Upto(e.command, e.cursor_pos) \o From(e.command, pos)]
    ELSE e

\* history[-(i + 1)]
HistoryEntry(h, i) == h[Len(h) - i]

\* Up that tests the history cursor against len(history), not len(history) - 1
HistoryUp_past_oldest(e) ==
    IF e.history # <<>> /\ e.history_index < Len(e.history)
    THEN LET i == e.history_index + 1
             c == IF i < Len(e.history) THEN HistoryEntry(e.history, i) ELSE e.command
         IN  [e EXCEPT !.history_index = i, !.command = c, !.cursor_pos = Len(c)]
    ELSE e

\* Up arrow, src/ui.py:501-506
HistoryUp(e) ==
    IF e.history # <<>> /\ e.history_index < Len(e.history) - 1
    THEN LET c == HistoryEntry(e.history, e.history_index + 1)
         IN  [e EXCEPT !.history_index = e.history_index + 1,
                       !.command = c, !.cursor_pos = Len(c)]
    ELSE e

\* Down arrow, src/ui.py:508-517
HistoryDown(e) ==
    IF e.history_index > 0
    THEN LET c == HistoryEntry(e.history, e.history_index - 1)
         IN  [e EXCEPT !.history_index = e.history_index - 1,
                       !.command = c, !.cursor_pos = Len(c)]
    ELSE IF e.history_index = 0
    THEN [e EXCEPT !.history_index = -1, !.command = e.initial_command,
                   !.cursor_pos = Len(e.initial_command)]
    ELSE e

\* a printable character always appended at the end of the buffer
TypeChar_append(e, c) ==
    [e EXCEPT !.command = e.command \o <<c>>, !.cursor_pos = e.cursor_pos + 1]

\* a printable character, src/ui.py:522-534
TypeChar(e, c) ==
    LET cmd == IF e.insert_mode
               THEN Upto(e.command, e.cursor_pos) \o <<c>> \o From(e.command, e.cursor_pos)
               ELSE IF e.cursor_pos < Len(e.command)
               THEN Upto(e.command, e.cursor_pos) \o <<c>> \o From(e.command, e.cursor_pos + 1)
               ELSE e.command \o <<c>>
    IN  [e EXCEPT !.command = cmd, !.cursor_pos = e.cursor_pos + 1]

\* one pass of the edit loop on key k (src/ui.py:398-534): the editor after
\* it and whether edit_command goes on, returns the text or returns None
edit_key(e, k) ==
    IF k = ENTER \/ k = NEWLINE THEN [ed |-> e, outcome |-> "return"]
    ELSE IF k = CTRL_C THEN [ed |-> e, outcome |-> "cancel"]
    ELSE IF k = CTRL_D THEN
        [ed |-> e, outcome |-> IF e.command = <<>> THEN "cancel" ELSE "continue"]
    ELSE IF k = BACKSPACE \/ k = <<"BS">> THEN [ed |-> Backspace(e), outcome |-> "continue"]
    ELSE IF k = DELETE \/ (Len(k) = 4 /\ Upto(k, 3) = <<"ESC", "[", "3">>) THEN
        [ed |-> DeleteChar(e), outcome |-> "continue"]
    ELSE IF k = LEFT_ARROW THEN [ed |-> CursorLeft(e), outcome |-> "continue"]
    ELSE IF k = RIGHT_ARROW THEN [ed |-> CursorRight(e), outcome |-> "continue"]
    ELSE IF k = CTRL_LEFT THEN [ed |-> WordLeft(e), outcome |-> "continue"]
    ELSE IF k = CTRL_RIGHT THEN [ed |-> WordRight(e), outcome |-> "continue"]
    ELSE IF k = HOME THEN [ed |-> [e EXCEPT !.cursor_pos = 0], outcome |-> "continue"]
    ELSE IF k = END THEN
        [ed |-> [e EXCEPT !.cursor_pos = Len(e.command)], outcome |-> "continue"]
    ELSE IF k = CTRL_U THEN [ed |-> KillToStart(e), outcome |-> "continue"]
    ELSE IF k = CTRL_K THEN [ed |-> KillToEnd(e), outcome |-> "continue"]
    ELSE IF k = CTRL_W THEN [ed |-> DeleteWordBefore(e), outcome |-> "continue"]
    ELSE IF k = CTRL_DELETE THEN [ed |-> DeleteWordAfter(e), outcome |-> "continue"]
    ELSE IF k = UP_ARROW THEN [ed |-> HistoryUp(e), outcome |-> "continue"]
    ELSE IF k = DOWN_ARROW THEN [ed |-> HistoryDown(e), outcome |-> "continue"]
    ELSE IF k = INSERT THEN
        [ed |-> [e EXCEPT !.insert_mode = ~e.insert_mode], outcome |-> "continue"]
    ELSE IF Len(k) = 1 /\ isprintable(k[1]) THEN
        [ed |-> TypeChar(e, k[1]), outcome |-> "continue"]
    ELSE [ed |-> e, outcome |-> "continue"]

\* edit_command(initial) of editor e when the keys read are keys, one after
\* the other (src/ui.py:387-534): the value returned; None also when the
\* keys end before the session does
RECURSIVE edit_loop(_, _)
edit_loop(e, keys) ==
    IF keys = <<>> THEN None
    ELSE LET r == edit_key(e, Head(keys)) IN
         IF r.outcome = "return" THEN Some(r.ed.command)
         ELSE IF r.outcome = "cancel" THEN None
         ELSE edit_loop(r.ed, Tail(keys))

edit_command(e, initial, keys) ==
    edit_loop([e EXCEPT !.command = initial, !.cursor_pos = Len(initial),
                        !.initial_command = initial], keys)

\* the keys that type a text, one character each
Typing(text) == [i \in 1..Len(text) |-> <<text[i]>>]

----------------------------------------------------------------------------
(* The review interface and the editor as the orchestrator drives them *)

Init ==
    /\ pc = "idle"
    /\ api = "none"
    /\ status = "idle"
    /\ result = None
    /\ exc = ""
    /\ suggestion = NoSuggestion
    /\ key = <<>>
    /\ selection = <<>>
    /\ panel = NoPanel
    /\ notice = ""
    /\ clipboard = <<>>
    /\ termMode = "cooked"
    /\ modeAtCall = "cooked"
    /\ switched = FALSE
    /\ original_settings = "None"
    /\ session = FALSE
    /\ isatty \in BOOLEAN
    /\ stdin = <<>>
    /\ eof = FALSE
    /\ ed = NewEditor
    /\ assistant = NoAssistant
    /\ environ = NoEnviron
    /\ terminal_caps = NoCaps
    /\ box = NoBox
    /\ noticeMode = "none"
    /\ launcher = NoLauncher
    /\ config_file = NoConfig

Next ==
    \/ \E k \in UserKeys : Press(k)
    \/ CloseStdin
    \/ \E s \in Suggestions : CallProcess(s)
    \/ Display
    \/ ReadGesture
    \/ InterruptGesture
    \/ EndOfInput
    \/ ShowAlternatives
    \/ ReadAlternative
    \/ ShowHelp
    \/ ReadHelp
    \/ \E t \in InitialTexts : CallEdit(t)
    \/ EditDraw

Spec == Init /\ [][Next]_vars

----------------------------------------------------------------------------
(* The key dispatch of edit_command on its own: edit sessions on one       *)
(* editor object in which every buffer is drawn, fed the keys directly     *)

\* previously submitted commands of the editor object, most recent last
Histories == {<<>>, << <<"a">> >>, << <<"a", " ", "a">>, <<" ", "a">> >>}

EditKeys == {ENTER, CTRL_C, CTRL_D, BACKSPACE, <<"BS">>, DELETE, LEFT_ARROW,
             RIGHT_ARROW, CTRL_LEFT, CTRL_RIGHT, HOME, END, CTRL_U, CTRL_K,
             CTRL_W, CTRL_DELETE, UP_ARROW, DOWN_ARROW, INSERT, <<"a">>, <<" ">>,
             TAB, PAGE_UP}

InitKeys ==
    /\ pc = "idle"
    /\ api = "none"
    /\ status = "idle"
    /\ result = None
    /\ exc = ""
    /\ suggestion = NoSuggestion
    /\ key = <<>>
    /\ selection = <<>>
    /\ panel = NoPanel
    /\ notice = ""
    /\ clipboard = <<>>
    /\ termMode = "cooked"
    /\ modeAtCall = "cooked"
    /\ switched = FALSE
    /\ original_settings = "None"
    /\ session = FALSE
    /\ isatty = TRUE
    /\ stdin = <<>>
    /\ eof = FALSE
    /\ \E h \in Histories : ed = [NewEditor EXCEPT !.history = h]
    /\ assistant = NoAssistant
    /\ environ = NoEnviron
    /\ terminal_caps = NoCaps
    /\ box = NoBox
    /\ noticeMode = "none"
    /\ launcher = NoLauncher
    /\ config_file = NoConfig

\* edit_command(initial), src/ui.py:387-388
StartEdit(initial) ==
    /\ status # "running"
    /\ api' = "edit"
    /\ status' = "running"
    /\ ed' = [ed EXCEPT !.command = initial, !.cursor_pos = Len(initial),
                        !.initial_command = initial, !.navigated_from = None]
    /\ result' = None
    /\ pc' = "edit_read"
    /\ UNCHANGED <<exc, suggestion, key, selection, panel, notice, clipboard,
                   termMode, modeAtCall, switched, original_settings, session,
                   isatty, stdin, eof>>
    /\ UNCHANGED <<assistant, environ, terminal_caps, box, noticeMode, launcher,
                   config_file>>

\* the buffer the history navigation under way was started from: recorded
\* when Up leaves the sentinel -1, dropped when Down returns to it
NavigatedFrom(e, k) ==
    LET after == edit_key(e, k).ed IN
    IF e.history_index = -1 /\ after.history_index # -1 THEN Some(e.command)
    ELSE IF after.history_index = -1 THEN None
    ELSE e.navigated_from

\* the edit loop reads key k and acts on it, src/ui.py:394-534; from is the
\* record of where the navigation started that goes with the new state
EditLoop(k, from) ==
    /\ pc = "edit_read"
    /\ Len(edit_key(ed, k).ed.command) <= MaxLen
    /\ key' = k
    /\ ed' = [edit_key(ed, k).ed EXCEPT !.navigated_from = from]
    /\ IF edit_key(ed, k).outcome = "return" THEN
          /\ result' = Some(ed.command) /\ status' = "returned" /\ pc' = "done"
       ELSE IF edit_key(ed, k).outcome = "cancel" THEN
          /\ result' = None /\ status' = "returned" /\ pc' = "done"
       ELSE UNCHANGED <<result, status, pc>>
    /\ UNCHANGED <<api, exc, suggestion, selection, panel, notice, clipboard,
                   termMode, modeAtCall, switched, original_settings, session,
                   isatty, stdin, eof>>
    /\ UNCHANGED <<assistant, environ, terminal_caps, box, noticeMode, launcher,
                   config_file>>

\* one pass of the edit loop, nothing recorded of the past
EditKey(k) == EditLoop(k, ed.navigated_from)

NextKeys ==
    \/ \E t \in InitialTexts : StartEdit(t)
    \/ \E k \in EditKeys : EditKey(k)

SpecKeys == InitKeys /\ [][NextKeys]_vars

----------------------------------------------------------------------------
(* The key reader on its own: a KeyboardInput session on a terminal whose  *)
(* read_key is called with no timeout, with the timeout 0 or with a        *)
(* positive timeout                                                        *)

\* the timeout argument of read_key: None or a number of seconds
NoTimeout == [none |-> TRUE, val |-> 0]
Timeout(n) == [none |-> FALSE, val |-> n]

\* `if timeout:` (src/ui.py:253, 263): neither None nor 0
timeout_given(t) == ~t.none /\ t.val # 0

\* keys of a terminal that KeyCode does not name: Alt+q, F1, F5
ALT_Q == <<"ESC", "q">>
F1 == <<"ESC", "O", "P">>
F5 == <<"ESC", "[", "1", "5", "~">>

\* what a key press puts on the terminal's input at once
ReaderKeys == {TAB, SHIFT_TAB, ENTER, ESC, CTRL_C, BACKSPACE, DELETE, UP_ARROW,
               DOWN_ARROW, LEFT_ARROW, RIGHT_ARROW, HOME, END, PAGE_UP, PAGE_DOWN,
               CTRL_LEFT, CTRL_RIGHT, CTRL_DELETE, INSERT, ALT_Q, F1, F5, <<"a">>}

InitReader ==
    /\ pc = "idle"
    /\ api = "none"
    /\ status = "idle"
    /\ result = None
    /\ exc = ""
    /\ suggestion = NoSuggestion
    /\ key = <<>>
    /\ selection = <<>>
    /\ panel = NoPanel
    /\ notice = ""
    /\ clipboard = <<>>
    /\ termMode = "cooked"
    /\ modeAtCall = "cooked"
    /\ switched = FALSE
    /\ original_settings = "None"
    /\ session = FALSE
    /\ isatty = TRUE
    /\ stdin = <<>>
    /\ eof = FALSE
    /\ ed = NewEditor
    /\ assistant = NoAssistant
    /\ environ = NoEnviron
    /\ terminal_caps = NoCaps
    /\ box = NoBox
    /\ noticeMode = "none"
    /\ launcher = NoLauncher
    /\ config_file = NoConfig

\* `with KeyboardInput() as kbd:` (src/ui.py:163-178, 300-301)
OpenReader ==
    /\ pc = "idle"
    /\ \E ok \in BOOLEAN : SetupTerminal(ok)
    /\ session' = TRUE
    /\ modeAtCall' = termMode
    /\ api' = "read_key"
    /\ pc' = "reader"
    /\ UNCHANGED <<status, result, exc, suggestion, key, selection, panel, notice,
                   clipboard, isatty, stdin, eof, ed>>
    /\ UNCHANGED <<assistant, environ, terminal_caps, box, noticeMode, launcher,
                   config_file>>

\* kbd.read_key(t) is called (src/ui.py:188-200); with no timeout given the
\* call waits in sys.stdin.read(1)
CallReadKey(t) ==
    /\ pc = "reader"
    /\ ~timeout_given(t)
    /\ pc' = IF t.none THEN "read_blocking" ELSE "read_poll"
    /\ status' = "running"
    /\ UNCHANGED <<api, result, exc, suggestion, key, selection, panel, notice,
                   clipboard, termMode, modeAtCall, switched, original_settings,
                   session, isatty, stdin, eof, ed>>
    /\ UNCHANGED <<assistant, environ, terminal_caps, box, noticeMode, launcher,
                   config_file>>

\* the call returns the key _read_key_unix made of the bytes waiting
\* (src/ui.py:258-293)
ReturnReadKey ==
    /\ pc \in {"read_blocking", "read_poll"}
    /\ CanRead
    /\ key' = read_key.key
    /\ stdin' = read_key.rest
    /\ result' = Some(read_key.key)
    /\ status' = "returned"
    /\ pc' = "reader"
    /\ UNCHANGED <<api, exc, suggestion, selection, panel, notice, clipboard,
                   termMode, modeAtCall, switched, original_settings, session,
                   isatty, eof, ed>>
    /\ UNCHANGED <<assistant, environ, terminal_caps, box, noticeMode, launcher,
                   config_file>>

\* kbd.read_key(t) is called with a timeout that `if timeout:` takes as given
\* (src/ui.py:253-254): the call waits in select for at most t seconds
CallReadKeyTimed(t) ==
    /\ pc = "reader"
    /\ timeout_given(t)
    /\ pc' = "read_timed"
    /\ status' = "running"
    /\ UNCHANGED <<api, result, exc, suggestion, key, selection, panel, notice,
                   clipboard, termMode, modeAtCall, switched, original_settings,
                   session, isatty, stdin, eof, ed>>
    /\ UNCHANGED <<assistant, environ, terminal_caps, box, noticeMode, launcher,
                   config_file>>

\* select reports nothing within the timeout and the call returns None
\* without reading (src/ui.py:254-256)
TimeOut ==
    /\ pc = "read_timed"
    /\ ~CanRead
    /\ key' = KeyNone
    /\ result' = None
    /\ status' = "returned"
    /\ pc' = "reader"
    /\ UNCHANGED <<api, exc, suggestion, selection, panel, notice, clipboard,
                   termMode, modeAtCall, switched, original_settings, session,
                   isatty, stdin, eof, ed>>
    /\ UNCHANGED <<assistant, environ, terminal_caps, box, noticeMode, launcher,
                   config_file>>

\* select reports input and the call returns the key made of the bytes its
\* reads find (src/ui.py:258-277)
ReturnReadKeyTimed(ready) ==
    /\ pc = "read_timed"
    /\ stdin # <<>>
    /\ LET r == _read_key_unix_timed(stdin, ready)
       IN  /\ key' = r.key
           /\ stdin' = r.rest
           /\ result' = Some(r.key)
    /\ status' = "returned"
    /\ pc' = "reader"
    /\ UNCHANGED <<api, exc, suggestion, selection, panel, notice, clipboard,
                   termMode, modeAtCall, switched, original_settings, session,
                   isatty, eof, ed>>
    /\ UNCHANGED <<assistant, environ, terminal_caps, box, noticeMode, launcher,
                   config_file>>

\* the end of the `with` block (src/ui.py:303-304)
CloseReader ==
    /\ pc = "reader"
    /\ CloseSession
    /\ pc' = "idle"
    /\ status' = "idle"
    /\ UNCHANGED <<api, result, exc, suggestion, key, selection, panel, notice,
                   clipboard, modeAtCall, switched, isatty, stdin, eof, ed>>
    /\ UNCHANGED <<assistant, environ, terminal_caps, box, noticeMode, launcher,
                   config_file>>

NextReader ==
    \/ \E k \in ReaderKeys : Press(k)
    \/ OpenReader
    \/ \E t \in {NoTimeout, Timeout(0)} : CallReadKey(t)
    \/ ReturnReadKey
    \/ CallReadKeyTimed(Timeout(1))
    \/ TimeOut
    \/ \E ready \in 0..3 : ReturnReadKeyTimed(ready)
    \/ CloseReader

SpecReader == InitReader /\ [][NextReader]_vars

----------------------------------------------------------------------------
(* The risk assessor on its own: reviews opened on command texts made of   *)
(* a few words, each rendered once                                         *)

AssessTokens == {<<"r", "m">>, <<"R", "M">>, <<"-", "r", "f">>, <<"-", "R", "F">>,
                 <<"/", "t", "m", "p", "/", "x">>, <<"l", "s">>, <<"-", "l", "a">>,
                 <<"s", "u", "d", "o">>, <<"s", "u", "d", "o", "e", "r", "s">>}

\* the words of ws with one space between them
RECURSIVE Join(_)
Join(ws) ==
    IF Len(ws) = 1 THEN ws[1] ELSE ws[1] \o <<" ">> \o Join(Tail(ws))

AssessTexts == UNION {{Join(ws) : ws \in [1..n -> AssessTokens]} : n \in 1..MaxTokens}

NextAssess ==
    \/ \E c \in AssessTexts : CallProcess(Suggestion(c, "", <<>>, <<>>))
    \/ Display

SpecAssess == Init /\ [][NextAssess]_vars

----------------------------------------------------------------------------
(* History navigation in edit sessions, with the buffer it started from    *)
(* on record                                                               *)

NavKeys == {ENTER, CTRL_C, UP_ARROW, DOWN_ARROW, BACKSPACE, LEFT_ARROW, CTRL_U,
            <<"a">>, <<" ">>}

\* one pass of the edit loop, src/ui.py:394-534
EditKeyNav(k) == EditLoop(k, NavigatedFrom(ed, k))

NextNav ==
    \/ \E t \in InitialTexts : StartEdit(t)
    \/ \E k \in NavKeys : EditKeyNav(k)

SpecNav == InitKeys /\ [][NextNav]_vars

----------------------------------------------------------------------------
(* The orchestrator, src/assistant.py:417-585: process_command with its    *)
(* loader thread.  The main thread and the loader thread take their steps  *)
(* in any order; the review is entered and left in one step each           *)

\* str.startswith
startswith(s, prefix) ==
    Len(s) >= Len(prefix) /\ SubSeq(s, 1, Len(prefix)) = prefix

ErrorPrefix == <<"#", " ", "E", "r", "r", "o", "r", ":">>

\* the fallback get_ai_suggestion builds when the request fails
\* (src/assistant.py:339-349)
ErrorSuggestion ==
    [command |-> ErrorPrefix \o <<" ", "x">>,
     explanation |-> "Failed to generate command suggestion",
     risk_level |-> "UNKNOWN", alternatives |-> <<>>,
     context_hints |-> <<"AI service is currently unavailable">>,
     requires_sudo |-> FALSE, is_destructive |-> FALSE]

\* what get_simple_command returns: the command, nothing else
\* (src/assistant.py:274-297)
SimpleSuggestion(c) == Suggestion(c, "", <<>>, <<>>)

\* outcomes of the request made while the loader runs: a suggestion, the
\* fallback for a failed request, an exception, a keyboard interrupt; warned
\* tells that the request for the alternatives failed and
\* _generate_alternatives printed its warning (src/assistant.py:216-218)
RequestOutcomes(simple) ==
    {[kind |-> "returns", warned |-> FALSE,
      s |-> IF simple THEN SimpleSuggestion(s.command) ELSE s] :
        s \in Suggestions \cup {ErrorSuggestion}}
    \cup {[kind |-> "returns", warned |-> TRUE, s |-> s] :
            s \in {t \in Suggestions : ~simple /\ t.alternatives = <<>>}}
    \cup {[kind |-> "raises", warned |-> FALSE, s |-> NoSuggestion],
          [kind |-> "KeyboardInterrupt", warned |-> FALSE, s |-> NoSuggestion]}

\* process_command starts the loader thread (src/assistant.py:420-426,
\* 501-503)
process_command(simple) ==
    /\ assistant.pc = "idle"
    /\ assistant' = [assistant EXCEPT !.pc = "request", !.simple_mode = simple,
                                      !.stop_event = FALSE,
                                      !.loader_thread = "test"]
    /\ UNCHANGED <<pc, api, status, result, exc, suggestion, key, selection, panel,
                   notice, clipboard, termMode, modeAtCall, switched,
                   original_settings, session, isatty, stdin, eof, ed>>
    /\ UNCHANGED <<environ, terminal_caps, box, noticeMode, launcher, config_file>>

\* the request ends (src/assistant.py:428-432, 505-509): its value is kept,
\* an Exception is reported and becomes `return False`, a KeyboardInterrupt
\* stays in flight; each way leads into the finally block
get_ai_suggestion(o) ==
    /\ assistant.pc = "request"
    /\ suggestion' = o.s
    /\ assistant' =
         [assistant EXCEPT
            !.pc = "finally",
            !.in_flight = IF o.kind = "raises" THEN "return False"
                          ELSE IF o.kind = "KeyboardInterrupt" THEN "KeyboardInterrupt"
                          ELSE "",
            !.printed = IF o.kind = "raises" THEN @ \cup {"Failed to get AI suggestion"}
                        ELSE IF o.warned THEN @ \cup {"Could not generate alternatives"}
                        ELSE @]
    /\ UNCHANGED <<pc, api, status, result, exc, key, selection, panel,
                   notice, clipboard, termMode, modeAtCall, switched,
                   original_settings, session, isatty, stdin, eof, ed>>
    /\ UNCHANGED <<environ, terminal_caps, box, noticeMode, launcher, config_file>>

\* finally: stop_event.set() (src/assistant.py:434)
finally_set(a) == [a EXCEPT !.stop_event = TRUE, !.pc = "join"]

\* a join that returns while the loader is still running
joined_early(a) == TRUE

\* loader_thread.join() returns once the thread has terminated
\* (src/assistant.py:435)
joined(a) == a.loader_thread = "terminated"

StopLoader ==
    /\ assistant.pc = "finally"
    /\ assistant' = finally_set(assistant)
    /\ UNCHANGED <<pc, api, status, result, exc, suggestion, key, selection, panel,
                   notice, clipboard, termMode, modeAtCall, switched,
                   original_settings, session, isatty, stdin, eof, ed>>
    /\ UNCHANGED <<environ, terminal_caps, box, noticeMode, launcher, config_file>>

\* the finally block ends: what was in flight takes effect, otherwise the
\* function goes on after the try statement
JoinLoader ==
    /\ assistant.pc = "join"
    /\ joined(assistant)
    /\ assistant' =
         IF assistant.in_flight = "KeyboardInterrupt"
         THEN [assistant EXCEPT !.pc = "done", !.returned = "KeyboardInterrupt"]
         ELSE IF assistant.in_flight = "return False"
         THEN [assistant EXCEPT !.pc = "done", !.returned = "False"]
         ELSE [assistant EXCEPT !.pc = "check"]
    /\ UNCHANGED <<pc, api, status, result, exc, suggestion, key, selection, panel,
                   notice, clipboard, termMode, modeAtCall, switched,
                   original_settings, session, isatty, stdin, eof, ed>>
    /\ UNCHANGED <<environ, terminal_caps, box, noticeMode, launcher, config_file>>

\* the commands a review of s can end on: the suggested one or an
\* alternative chosen for it (src/ui.py:914-917)
ReviewCommands(s) ==
    {s.command} \cup {s.alternatives[i] : i \in 1..Len(s.alternatives)}

\* how process_command_interaction(s) ends (src/ui.py:888-928)
ReviewOutcomes(s) ==
    {[kind |-> "returns", v |-> None]}
    \cup {[kind |-> "returns", v |-> Some(c)] : c \in ReviewCommands(s)}
    \cup {[kind |-> "returns", v |-> Some(ACCEPT \o c)] : c \in ReviewCommands(s)}
    \cup {[kind |-> "KeyboardInterrupt", v |-> None], [kind |-> "EOFError", v |-> None]}

\* after the try statement (src/assistant.py:437-440, 514-517): a command
\* that reports a failed request ends the call
CheckSuggestion ==
    /\ assistant.pc = "check"
    /\ assistant' =
         IF startswith(suggestion.command, ErrorPrefix)
         THEN [assistant EXCEPT
                 !.pc = "done", !.returned = "False",
                 !.printed = @ \cup {IF assistant.simple_mode
                                     THEN "Failed to generate command"
                                     ELSE suggestion.explanation}]
         ELSE [assistant EXCEPT !.pc = IF assistant.simple_mode THEN "simple"
                                       ELSE "review"]
    /\ UNCHANGED <<pc, api, status, result, exc, suggestion, key, selection, panel,
                   notice, clipboard, termMode, modeAtCall, switched,
                   original_settings, session, isatty, stdin, eof, ed>>
    /\ UNCHANGED <<environ, terminal_caps, box, noticeMode, launcher, config_file>>

\* Simple Mode prints the command and copies it (src/assistant.py:519-585)
SimpleMode ==
    /\ assistant.pc = "simple"
    /\ \E copied \in BOOLEAN :
         /\ clipboard' = IF copied THEN suggestion.command ELSE clipboard
         /\ assistant' =
              [assistant EXCEPT
                 !.pc = "done", !.returned = "True",
                 !.printed = @ \cup {IF copied THEN "Command copied to clipboard"
                                     ELSE "Manually copy the command above"}]
    /\ UNCHANGED <<pc, api, status, result, exc, suggestion, key, selection, panel,
                   notice, termMode, modeAtCall, switched,
                   original_settings, session, isatty, stdin, eof, ed>>
    /\ UNCHANGED <<environ, terminal_caps, box, noticeMode, launcher, config_file>>

\* the review starts: process_command_interaction draws its first panel
\* (src/assistant.py:444, src/ui.py:892)
BeginReview ==
    /\ assistant.pc = "review"
    /\ panel' = display_command_preview(suggestion)
    /\ assistant' = [assistant EXCEPT !.pc = "reviewing"]
    /\ UNCHANGED <<pc, api, status, result, exc, suggestion, key, selection,
                   notice, clipboard, termMode, modeAtCall, switched,
                   original_settings, session, isatty, stdin, eof, ed>>
    /\ UNCHANGED <<environ, terminal_caps, box, noticeMode, launcher, config_file>>

\* the command is run (src/assistant.py:476-485, src/utils.py:241-264): a
\* command that exits with an error is reported and its stderr returned
execute_command(a, c, ok) ==
    [a EXCEPT !.pc = "done", !.returned = "True",
              !.executed = c, !.exec_failed = ~ok,
              !.printed = @ \cup {"Executing"}
                            \cup (IF ok THEN {} ELSE {"Error executing command"})]

\* process_command that runs the command it should only hand over
after_review_eager(a, o, ok) ==
    IF o.kind = "KeyboardInterrupt"
    THEN [a EXCEPT !.pc = "done", !.returned = "False",
                   !.printed = @ \cup {"Operation cancelled by user"}]
    ELSE IF o.kind # "returns"
    THEN [a EXCEPT !.pc = "done", !.returned = "False",
                   !.printed = @ \cup {"Command processing failed"}]
    ELSE IF ~Truthy(o.v)
    THEN [a EXCEPT !.pc = "done", !.returned = "False",
                   !.printed = @ \cup {"Command execution cancelled"}]
    ELSE IF startswith(o.v.val, ACCEPT)
    THEN execute_command(a, Slice(o.v.val, Len(ACCEPT) + 1, Len(o.v.val)), ok)
    ELSE execute_command(a, o.v.val, ok)

\* what process_command does with the way the review ended
\* (src/assistant.py:443-496): o is the value the review returned or the
\* exception it raised, ok whether the paste or the command succeeded
after_review(a, o, ok) ==
    IF o.kind = "KeyboardInterrupt"
    THEN [a EXCEPT !.pc = "done", !.returned = "False",
                   !.printed = @ \cup {"Operation cancelled by user"}]
    ELSE IF o.kind # "returns"
    THEN [a EXCEPT !.pc = "done", !.returned = "False",
                   !.printed = @ \cup {"Command processing failed"}]
    ELSE IF ~Truthy(o.v)
    THEN [a EXCEPT !.pc = "done", !.returned = "False",
                   !.printed = @ \cup {"Command execution cancelled"}]
    ELSE IF startswith(o.v.val, ACCEPT)
    THEN [a EXCEPT
            !.pc = "done", !.returned = "True",
            !.printed = @ \cup {"Command ready"}
                          \cup {IF ok THEN "Command ready in clipboard"
                                ELSE "Failed to paste command"}]
    ELSE execute_command(a, o.v.val, ok)

\* the review ends and process_command acts on its result
\* (src/assistant.py:444-496)
EndReview(o) ==
    /\ assistant.pc = "reviewing"
    /\ result' = o.v
    /\ exc' = IF o.kind = "returns" THEN "" ELSE o.kind
    /\ \E ok \in BOOLEAN : assistant' = after_review(assistant, o, ok)
    /\ UNCHANGED <<pc, api, status, suggestion, key, selection, panel,
                   notice, clipboard, termMode, modeAtCall, switched,
                   original_settings, session, isatty, stdin, eof, ed>>
    /\ UNCHANGED <<environ, terminal_caps, box, noticeMode, launcher, config_file>>

\* _loader_animation, src/assistant.py:370-415: test the flag, write a
\* frame, wait, and clear the line once the flag is set
LoaderStep ==
    /\ assistant.loader_thread \in {"test", "write", "wait", "clear"}
    /\ assistant' =
         IF assistant.loader_thread = "test"
         THEN [assistant EXCEPT !.loader_thread = IF assistant.stop_event THEN "clear"
                                                  ELSE "write"]
         ELSE IF assistant.loader_thread = "write"
         THEN [assistant EXCEPT !.loader_thread = "wait",
                                !.frames = Min(@ + 1, MaxFrames)]
         ELSE IF assistant.loader_thread = "wait"
         THEN [assistant EXCEPT !.loader_thread = "test"]
         ELSE [assistant EXCEPT !.loader_thread = "terminated"]
    /\ UNCHANGED <<pc, api, status, result, exc, suggestion, key, selection, panel,
                   notice, clipboard, termMode, modeAtCall, switched,
                   original_settings, session, isatty, stdin, eof, ed>>
    /\ UNCHANGED <<environ, terminal_caps, box, noticeMode, launcher, config_file>>

NextAssistant ==
    \/ \E simple \in BOOLEAN : process_command(simple)
    \/ \E o \in RequestOutcomes(assistant.simple_mode) : get_ai_suggestion(o)
    \/ StopLoader
    \/ JoinLoader
    \/ CheckSuggestion
    \/ SimpleMode
    \/ BeginReview
    \/ \E o \in ReviewOutcomes(suggestion) : EndReview(o)
    \/ LoaderStep

SpecAssistant == Init /\ [][NextAssistant]_vars

----------------------------------------------------------------------------
(* Colour support detection: CrossPlatformUtils.supports_ansi_colors      *)
(* (src/cross_platform_utils.py:43-78), AIAssistant._detect_color_support  *)
(* (src/assistant.py:78-126) and detect_terminal_capabilities              *)
(* (src/launcher.py:26-48), each a function of the process environment     *)

T_color == <<"c", "o", "l", "o", "r">>
T_xterm == <<"x", "t", "e", "r", "m">>
T_xterm_256color == T_xterm \o <<"-", "2", "5", "6">> \o T_color
T_screen == <<"s", "c", "r", "e", "e", "n">>
T_tmux == <<"t", "m", "u", "x">>
T_dumb == <<"d", "u", "m", "b">>
T_XTERM == <<"X", "T", "E", "R", "M">>
T_rxvt_color == <<"r", "x", "v", "t", "-">> \o T_color
T_vscode == <<"v", "s", "c", "o", "d", "e">>
T_1 == <<"1">>

\* os.environ.get(name, ''): the empty string for a variable that is not set
GetOr(v) == IF v.none THEN <<>> ELSE v.val

\* the test all three detectors apply to TERM
ColorTerm(term) ==
    Contains(term, T_color) \/ term \in {T_xterm, T_xterm_256color, T_screen, T_tmux}

\* environments a detector can run in
TermValues == {None, Some(T_dumb), Some(T_xterm), Some(T_XTERM), Some(T_rxvt_color)}
Settings == {None, Some(<<>>), Some(T_1)}
Environments ==
    [system : {"Linux", "Windows"},
     stdout_isatty : BOOLEAN,
     stdin_isatty : BOOLEAN,
     TERM : TermValues,
     COLORTERM : Settings,
     NO_COLOR : Settings,
     FORCE_COLOR : Settings,
     WT_SESSION : {None, Some(T_1)},
     TERM_PROGRAM : {None, Some(T_vscode)},
     colorama : BOOLEAN,
     SetConsoleMode : BOOLEAN]

\* src/cross_platform_utils.py:43-78; e.colorama: the colorama package can
\* be imported, e.SetConsoleMode: the ctypes call does not raise
supports_ansi_colors(e) ==
    IF ~e.stdout_isatty THEN FALSE
    ELSE IF e.system = "Windows" THEN
        IF Truthy(e.WT_SESSION) THEN TRUE
        ELSE IF e.TERM_PROGRAM = Some(T_vscode) THEN TRUE
        ELSE IF e.colorama THEN TRUE
        ELSE e.SetConsoleMode
    ELSE IF ColorTerm(GetOr(e.TERM)) THEN TRUE
    ELSE ~e.COLORTERM.none

\* src/assistant.py:78-126; on Windows the version test of line 104 is true
\* of every interpreter that can run the module
_detect_color_support(e) ==
    IF Truthy(e.NO_COLOR) THEN FALSE
    ELSE IF Truthy(e.FORCE_COLOR) THEN TRUE
    ELSE IF e.system = "Windows" THEN TRUE
    ELSE IF ~e.stdout_isatty THEN FALSE
    ELSE IF ColorTerm(LowerText(GetOr(e.TERM))) THEN TRUE
    ELSE Truthy(e.COLORTERM)

\* capabilities['supports_color'] of src/launcher.py:26-48
detect_terminal_capabilities(e) ==
    IF ~(e.stdin_isatty /\ e.stdout_isatty) THEN FALSE
    ELSE IF ColorTerm(LowerText(IF e.TERM.none THEN <<"u", "n", "k", "n", "o", "w", "n">>
                                ELSE e.TERM.val)) THEN TRUE
    ELSE IF Truthy(e.COLORTERM) THEN TRUE
    ELSE IF e.system = "Windows" THEN
        Truthy(e.WT_SESSION) \/ e.TERM_PROGRAM = Some(T_vscode)
    ELSE FALSE

InitColor ==
    /\ pc = "idle"
    /\ api = "none"
    /\ status = "idle"
    /\ result = None
    /\ exc = ""
    /\ suggestion = NoSuggestion
    /\ key = <<>>
    /\ selection = <<>>
    /\ panel = NoPanel
    /\ notice = ""
    /\ clipboard = <<>>
    /\ termMode = "cooked"
    /\ modeAtCall = "cooked"
    /\ switched = FALSE
    /\ original_settings = "None"
    /\ session = FALSE
    /\ isatty = TRUE
    /\ stdin = <<>>
    /\ eof = FALSE
    /\ ed = NewEditor
    /\ assistant = NoAssistant
    /\ environ \in Environments
    /\ terminal_caps = NoCaps
    /\ box = NoBox
    /\ noticeMode = "none"
    /\ launcher = NoLauncher
    /\ config_file = NoConfig

Detected(name, value) ==
    /\ terminal_caps' = [detector |-> name, supports_color |-> value]
    /\ UNCHANGED <<pc, api, status, result, exc, suggestion, key, selection, panel,
                   notice, clipboard, termMode, modeAtCall, switched,
                   original_settings, session, isatty, stdin, eof, ed, assistant,
                   environ, box, noticeMode, launcher, config_file>>

\* TerminalCapabilities.__init__ (src/ui.py:91)
DetectForInterface == Detected("supports_ansi_colors", supports_ansi_colors(environ))

\* AIAssistant.__init__ (src/assistant.py:39)
DetectForAssistant == Detected("_detect_color_support", _detect_color_support(environ))

\* the launcher (src/launcher.py:87)
DetectForLauncher ==
    Detected("detect_terminal_capabilities", detect_terminal_capabilities(environ))

NextColor ==
    \/ DetectForInterface
    \/ DetectForAssistant
    \/ DetectForLauncher

SpecColor == InitColor /\ [][NextColor]_vars

----------------------------------------------------------------------------
(* Box rendering, InteractiveCommandInterface._draw_box, src/ui.py:563-624 *)
(* Box-drawing glyphs are one character each and written by name: "V" and  *)
(* "H" for the vertical and horizontal bars, "TL" "TR" "BL" "BR" for the   *)
(* corners, with the name of the style after them; the backslash and the   *)
(* double quote are written "BACKSLASH" and "QUOTE", the grave accent         *)
(* "BACKTICK"                                                              *)

\* the character classes of the pattern \x1B(?:[@-Z\\-_]|\[[0-?]*[ -/]*[@-~])
\* (src/ui.py:606)
ClassFe ==
    {"@", "A", "B", "C", "D", "E", "F", "G", "H", "I", "J", "K", "L", "M", "N", "O",
     "P", "Q", "R", "S", "T", "U", "V", "W", "X", "Y", "Z", "BACKSLASH", "]", "^", "_"}
ClassParameter ==
    {"0", "1", "2", "3", "4", "5", "6", "7", "8", "9", ":", ";", "<", "=", ">", "?"}
ClassIntermediate ==
    {" ", "!", "QUOTE", "#", "$", "%", "&", "'", "(", ")", "*", "+", ",", "-", ".", "/"}
ClassFinal ==
    ClassFe \cup {"["}
    \cup {"BACKTICK", "a", "b", "c", "d", "e", "f", "g", "h", "i", "j", "k", "l", "m", "n",
          "o", "p", "q", "r", "s", "t", "u", "v", "w", "x", "y", "z", "{", "|", "}", "~"}

\* the first position from i on whose character is not in class
RECURSIVE SkipClass(_, _, _)
SkipClass(s, i, class) ==
    IF i <= Len(s) /\ s[i] \in class THEN SkipClass(s, i + 1, class) ELSE i

\* length of the match of the pattern at position i of s, 0 for no match;
\* the three classes of the second alternative are disjoint, so the greedy
\* match is the only one
ansi_escape_match(s, i) ==
    IF s[i] # "ESC" \/ i = Len(s) THEN 0
    ELSE IF s[i + 1] \in ClassFe THEN 2
    ELSE IF s[i + 1] = "[" THEN
        LET f == SkipClass(s, SkipClass(s, i + 2, ClassParameter), ClassIntermediate)
        IN  IF f <= Len(s) /\ s[f] \in ClassFinal THEN f - i + 1 ELSE 0
    ELSE 0

\* ansi_escape.sub applied to s from position i on
RECURSIVE ansi_escape_sub_from(_, _)
ansi_escape_sub_from(s, i) ==
    IF i > Len(s) THEN <<>>
    ELSE LET n == ansi_escape_match(s, i)
         IN  IF n > 0 THEN ansi_escape_sub_from(s, i + n)
             ELSE <<s[i]>> \o ansi_escape_sub_from(s, i + 1)

ansi_escape_sub(s) == ansi_escape_sub_from(s, 1)

\* ColorScheme._colorize (src/ui.py:118-122) with the colour code 36
colorize(supports_color, s) ==
    IF supports_color THEN <<"ESC", "[", "3", "6", "m">> \o s \o <<"ESC", "[", "0", "m">>
    ELSE s

\* c repeated n times: c * n, empty for n <= 0
Repeat(c, n) == [i \in 1..n |-> c]

\* s[:n] of Python, n of either sign
Prefix(s, n) ==
    IF n >= 0 THEN SubSeq(s, 1, Min(n, Len(s))) ELSE SubSeq(s, 1, Max(Len(s) + n, 0))

\* the border glyphs chosen at src/ui.py:572-591
Glyphs(can_use_unicode, style) ==
    IF can_use_unicode
    THEN [top_left |-> "TL" \o style, top_right |-> "TR" \o style,
          bottom_left |-> "BL" \o style, bottom_right |-> "BR" \o style,
          horizontal |-> "H" \o style, vertical |-> "V" \o style]
    ELSE [top_left |-> "+", top_right |-> "+", bottom_left |-> "+", bottom_right |-> "+",
          horizontal |-> "-", vertical |-> "-"]

\* a content row padded by the length of the line with its colour codes
content_row_unstripped(b, line) ==
    LET g == Glyphs(b.can_use_unicode, b.style)
        display_line == IF Len(line) > b.width - 4
                        THEN Prefix(line, b.width - 7) \o <<".", ".", ".">>
                        ELSE line
        padding == b.width - Len(display_line) - 4
    IN  colorize(b.supports_color,
                 <<g.vertical, " ">> \o display_line \o Repeat(" ", padding)
                 \o <<" ", g.vertical>>)

\* one content row as printed (src/ui.py:604-620)
content_row(b, line) ==
    LET g == Glyphs(b.can_use_unicode, b.style)
        clean_line == ansi_escape_sub(line)
        display_line == IF Len(clean_line) > b.width - 4
                        THEN Prefix(line, b.width - 7) \o <<".", ".", ".">>
                        ELSE line
        padding == b.width - Len(ansi_escape_sub(display_line)) - 4
    IN  colorize(b.supports_color,
                 <<g.vertical, " ">> \o display_line \o Repeat(" ", padding)
                 \o <<" ", g.vertical>>)

\* the rows _draw_box prints for a box without a title (src/ui.py:598-624)
_draw_box(b) ==
    LET g == Glyphs(b.can_use_unicode, b.style)
        border(l, r) == colorize(b.supports_color,
                                 <<l>> \o Repeat(g.horizontal, b.width - 2) \o <<r>>)
    IN  <<border(g.top_left, g.top_right)>>
        \o [i \in 1..Len(b.content) |-> content_row(b, b.content[i])]
        \o <<border(g.bottom_left, g.bottom_right)>>

\* pieces that content lines are made of: text, a colour code and its
\* reset, and escape characters that start no complete sequence
LinePieces == {<<"a">>, <<" ">>, <<"-">>, <<"ESC", "[", "3", "1", "m">>,
               <<"ESC", "[", "0", "m">>, <<"ESC">>, <<"ESC", "[">>}

RECURSIVE Concat(_)
Concat(ps) == IF ps = <<>> THEN <<>> ELSE ps[1] \o Concat(Tail(ps))

ContentLines == UNION {{Concat(ps) : ps \in [1..n -> LinePieces]} : n \in 0..MaxPieces}

BoxCalls ==
    [width : 0..MaxWidth, content : {<<l>> : l \in ContentLines},
     can_use_unicode : BOOLEAN, style : {"normal", "rounded", "double"},
     supports_color : BOOLEAN, rows : {<<>>}]

InitBox ==
    /\ pc = "idle"
    /\ api = "none"
    /\ status = "idle"
    /\ result = None
    /\ exc = ""
    /\ suggestion = NoSuggestion
    /\ key = <<>>
    /\ selection = <<>>
    /\ panel = NoPanel
    /\ notice = ""
    /\ clipboard = <<>>
    /\ termMode = "cooked"
    /\ modeAtCall = "cooked"
    /\ switched = FALSE
    /\ original_settings = "None"
    /\ session = FALSE
    /\ isatty = TRUE
    /\ stdin = <<>>
    /\ eof = FALSE
    /\ ed = NewEditor
    /\ assistant = NoAssistant
    /\ environ = NoEnviron
    /\ terminal_caps = NoCaps
    /\ box \in BoxCalls
    /\ noticeMode = "none"
    /\ launcher = NoLauncher
    /\ config_file = NoConfig

DrawBox ==
    /\ box.rows = <<>>
    /\ box' = [box EXCEPT !.rows = _draw_box(box)]
    /\ UNCHANGED <<pc, api, status, result, exc, suggestion, key, selection, panel,
                   notice, clipboard, termMode, modeAtCall, switched,
                   original_settings, session, isatty, stdin, eof, ed, assistant,
                   environ, terminal_caps, noticeMode, launcher, config_file>>

NextBox == DrawBox

SpecBox == InitBox /\ [][NextBox]_vars

----------------------------------------------------------------------------
(* The review on a terminal whose reads can fail: sys.stdin.read raises    *)
(* (the terminal has gone away, the descriptor was left non-blocking) and  *)
(* read_key returns None (src/ui.py:297-298)                               *)

RetryKeys == {ENTER, TAB, CTRL_A, ESC, <<"?">>, <<"1">>}

\* read_key() returns None: the gesture loop and the alternatives loop
\* `continue` (src/ui.py:818-820, 869-871), _show_help ignores the value and
\* returns (src/ui.py:947-948)
ReadFails ==
    /\ pc \in {"gesture_read", "alternatives_read", "help_read"}
    /\ isatty
    /\ key' = KeyNone
    /\ IF pc = "help_read"
       THEN CloseSession /\ pc' = "display"
       ELSE UNCHANGED <<pc, termMode, original_settings, session>>
    /\ UNCHANGED <<api, status, result, exc, suggestion, selection, panel, notice,
                   clipboard, modeAtCall, switched, isatty, stdin, eof, ed>>
    /\ UNCHANGED <<assistant, environ, terminal_caps, box, noticeMode, launcher,
                   config_file>>

NextRetry ==
    \/ \E k \in RetryKeys : Press(k)
    \/ \E s \in Suggestions : CallProcess(s)
    \/ Display
    \/ ReadGesture
    \/ ShowAlternatives
    \/ ReadAlternative
    \/ ShowHelp
    \/ ReadHelp
    \/ ReadFails

SpecRetry == Init /\ [][NextRetry]_vars

----------------------------------------------------------------------------
(* The launcher, src/launcher.py:87-126, with the two assistants it can    *)
(* run seen from outside: each ends by returning, by sys.exit (SystemExit) *)
(* or by an exception that leaves its main                                 *)

\* what happens inside assistant.main: the request succeeds, process_command
\* returns False, an exception reaches main, an exception reaches main and
\* printing its message raises too, the user interrupts
UIEvents == {"success", "failure", "error", "error_unprintable", "interrupt"}

\* what happens inside ai_assistant.main: it runs to its end, it is called
\* without a request, the suggestion cannot be obtained, an exception is
\* raised outside the request (update_config, input, execute_command), the
\* user interrupts
OriginalEvents == {"success", "usage", "suggestion_fails", "raises", "interrupt"}

Returns == [ends |-> "return", code |-> 0]
SystemExit(c) == [ends |-> "SystemExit", code |-> c]
Exception == [ends |-> "Exception", code |-> 1]

\* assistant.main, src/assistant.py:859-899: every path of the try block ends
\* in sys.exit, KeyboardInterrupt exits with 0 and every other exception is
\* printed as 'Fatal Error' and exits with 1
assistant_main(event) ==
    CASE event = "success" -> SystemExit(0)
      [] event = "failure" -> SystemExit(1)
      [] event = "interrupt" -> SystemExit(0)
      [] event = "error" -> SystemExit(1)
      [] event = "error_unprintable" -> Exception

\* ai_assistant.main, src/ai_assistant.py:67-129: only KeyboardInterrupt is
\* caught around the whole body, a failed suggestion exits with 1
original_main(event) ==
    CASE event = "success" -> Returns
      [] event = "usage" -> SystemExit(1)
      [] event = "suggestion_fails" -> SystemExit(1)
      [] event = "interrupt" -> SystemExit(0)
      [] event = "raises" -> Exception

\* one run of the launcher: the terminal (is_interactive), the result of
\* test_ui_availability, the command line and what will happen inside the
\* assistants
Launches ==
    [pc : {"main"}, is_interactive : BOOLEAN, ui_available : BOOLEAN,
     info_request : BOOLEAN, ui_event : UIEvents, original_event : OriginalEvents,
     ran : {<<>>}, printed : {<<>>}, exit_status : {-1}]

InitLauncher ==
    /\ pc = "idle"
    /\ api = "none"
    /\ status = "idle"
    /\ result = None
    /\ exc = ""
    /\ suggestion = NoSuggestion
    /\ key = <<>>
    /\ selection = <<>>
    /\ panel = NoPanel
    /\ notice = ""
    /\ clipboard = <<>>
    /\ termMode = "cooked"
    /\ modeAtCall = "cooked"
    /\ switched = FALSE
    /\ original_settings = "None"
    /\ session = FALSE
    /\ isatty = TRUE
    /\ stdin = <<>>
    /\ eof = FALSE
    /\ ed = NewEditor
    /\ assistant = NoAssistant
    /\ environ = NoEnviron
    /\ terminal_caps = NoCaps
    /\ box = NoBox
    /\ noticeMode = "none"
    /\ launcher \in Launches
    /\ config_file = NoConfig

LauncherStep(l) ==
    /\ launcher' = l
    /\ UNCHANGED <<pc, api, status, result, exc, suggestion, key, selection, panel,
                   notice, clipboard, termMode, modeAtCall, switched,
                   original_settings, session, isatty, stdin, eof, ed, assistant,
                   environ, terminal_caps, box, noticeMode, config_file>>

\* the process ends with status c
Exit(l, c) == [l EXCEPT !.pc = "exited", !.exit_status = c]

\* --version, --info, --capabilities (src/launcher.py:91-94)
ShowVersionInfo ==
    /\ launcher.pc = "main"
    /\ launcher.info_request
    /\ LauncherStep(Exit(launcher, 0))

\* the choice of the assistant (src/launcher.py:96-99, 110-113)
ChooseAssistant ==
    /\ launcher.pc = "main"
    /\ ~launcher.info_request
    /\ LauncherStep(
         IF launcher.ui_available /\ launcher.is_interactive
         THEN [launcher EXCEPT !.pc = "ui"]
         ELSE [launcher EXCEPT
                 !.pc = "original",
                 !.printed = IF launcher.ui_available THEN @
                             ELSE Append(@, "UI not available, using original assistant")])

\* `from assistant import main; main()` and its handler
\* (src/launcher.py:100-105)
RunUI ==
    /\ launcher.pc = "ui"
    /\ LET o == assistant_main(launcher.ui_event)
           l == [launcher EXCEPT !.ran = Append(@, "assistant")]
       IN  LauncherStep(
             CASE o.ends = "SystemExit" -> Exit(l, o.code)
               [] o.ends = "return" -> Exit(l, 0)
               [] o.ends = "Exception" ->
                    [l EXCEPT !.pc = "fallback",
                              !.printed = @ \o <<"UI error",
                                                 "Falling back to original assistant...">>])

\* the fallback inside the handler (src/launcher.py:106-111)
RunFallback ==
    /\ launcher.pc = "fallback"
    /\ LET o == original_main(launcher.original_event)
           l == [launcher EXCEPT !.ran = Append(@, "ai_assistant")]
       IN  LauncherStep(
             CASE o.ends = "SystemExit" -> Exit(l, o.code)
               [] o.ends = "return" -> Exit(l, 0)
               [] o.ends = "Exception" ->
                    Exit([l EXCEPT !.printed = Append(@, "Fallback error")], 1))

\* the original assistant for a session that is not interactive or has no UI
\* (src/launcher.py:116-126)
RunOriginal ==
    /\ launcher.pc = "original"
    /\ LET o == original_main(launcher.original_event)
           l == [launcher EXCEPT !.ran = Append(@, "ai_assistant")]
       IN  LauncherStep(
             CASE o.ends = "SystemExit" -> Exit(l, o.code)
               [] o.ends = "return" -> Exit(l, 0)
               [] o.ends = "Exception" ->
                    Exit([l EXCEPT !.printed = Append(@, "Error in assistant")], 1))

NextLauncher ==
    \/ ShowVersionInfo
    \/ ChooseAssistant
    \/ RunUI
    \/ RunFallback
    \/ RunOriginal

SpecLauncher == InitLauncher /\ [][NextLauncher]_vars

----------------------------------------------------------------------------
(* The configuration file, src/utils.py:38-160.  The file is a sequence of *)
(* tokens: the name of a key, "=", a value, "LF" for the line end, "#" for *)
(* a comment; a line is the tokens up to and including a line end          *)

\* two of the keys of get_config_schema with their allowed values
\* (src/utils.py:41-46, 59-64)
get_config_schema ==
    [AI_ASSISTANT_SKIP_CONFIRM |-> {"true", "false"},
     AI_ASSISTANT_SAFETY_LEVEL |-> {"low", "medium", "high"}]

\* validate_config, src/utils.py:97-113
validate_config(k, value) ==
    k \in DOMAIN get_config_schema /\ value \in get_config_schema[k]

\* file.readlines(): the lines with their line ends, the last one without
\* when the file does not end in one
RECURSIVE readlines(_)
readlines(c) ==
    IF c = <<>> THEN <<>>
    ELSE IF \E i \in 1..Len(c) : c[i] = "LF"
         THEN LET n == CHOOSE i \in 1..Len(c) :
                          c[i] = "LF" /\ \A j \in 1..(i - 1) : c[j] # "LF"
              IN  <<Slice(c, 1, n)>> \o readlines(Slice(c, n + 1, Len(c)))
         ELSE <<c>>

\* update_config, src/utils.py:115-160: what it raises and the file it leaves
update_config(f, k, value) ==
    IF ~validate_config(k, value)
    THEN [raises |-> "ValueError", exists |-> f.exists, content |-> f.content]
    ELSE LET lines == IF f.exists THEN readlines(f.content) ELSE <<>>
             new_line == <<k, "=", value, "LF">>
             found == {i \in 1..Len(lines) : startswith(lines[i], <<k, "=">>)}
             first == CHOOSE i \in found : \A j \in found : i <= j
             updated == IF found # {}
                        THEN [lines EXCEPT ![first] = new_line]
                        ELSE Append(lines, new_line)
         IN  [raises |-> "", exists |-> TRUE, content |-> Concat(updated)]

\* lines a configuration file is made of
ConfigLines == {<<"AI_ASSISTANT_SKIP_CONFIRM", "=", "true">>,
                <<"AI_ASSISTANT_SKIP_CONFIRM", "=", "false">>,
                <<"AI_ASSISTANT_SAFETY_LEVEL", "=", "low">>,
                <<"AI_ASSISTANT_SAFETY_LEVEL", "=", "high">>,
                <<"#">>}

\* the texts of a configuration file: up to MaxLines lines, each ended by a
\* line end, the last one with or without it
ConfigTexts ==
    UNION {{Concat([i \in 1..n |-> ls[i] \o <<"LF">>]) : ls \in [1..n -> ConfigLines]}
           \cup {Concat([i \in 1..n |-> IF i < n THEN ls[i] \o <<"LF">> ELSE ls[i]]) :
                   ls \in [1..n -> ConfigLines]} : n \in 0..MaxLines}

ConfigKeys == {"AI_ASSISTANT_SKIP_CONFIRM", "AI_ASSISTANT_SAFETY_LEVEL", "AI_ASSISTANT_COLOR"}
ConfigValues == {"true", "high", "maybe"}

InitConfig ==
    /\ pc = "idle"
    /\ api = "none"
    /\ status = "idle"
    /\ result = None
    /\ exc = ""
    /\ suggestion = NoSuggestion
    /\ key = <<>>
    /\ selection = <<>>
    /\ panel = NoPanel
    /\ notice = ""
    /\ clipboard = <<>>
    /\ termMode = "cooked"
    /\ modeAtCall = "cooked"
    /\ switched = FALSE
    /\ original_settings = "None"
    /\ session = FALSE
    /\ isatty = TRUE
    /\ stdin = <<>>
    /\ eof = FALSE
    /\ ed = NewEditor
    /\ assistant = NoAssistant
    /\ environ = NoEnviron
    /\ terminal_caps = NoCaps
    /\ box = NoBox
    /\ noticeMode = "none"
    /\ launcher = NoLauncher
    /\ \/ config_file = NoConfig
       \/ \E c \in ConfigTexts :
             config_file = [exists |-> TRUE, content |-> c, key |-> "", value |-> ""]

\* one call of update_config(k, value) on the first file of the behaviour
UpdateConfig(k, value) ==
    /\ config_file.key = ""
    /\ LET r == update_config(config_file, k, value)
       IN  /\ config_file' = [exists |-> r.exists, content |-> r.content,
                              key |-> k, value |-> value]
           /\ exc' = r.raises
           /\ status' = IF r.raises = "" THEN "returned" ELSE "raised"
    /\ api' = "update_config"
    /\ UNCHANGED <<pc, result, suggestion, key, selection, panel, notice, clipboard,
                   termMode, modeAtCall, switched, original_settings, session,
                   isatty, stdin, eof, ed, assistant, environ, terminal_caps, box,
                   noticeMode, launcher>>

NextConfig == \E k \in ConfigKeys, value \in ConfigValues : UpdateConfig(k, value)

SpecConfig == InitConfig /\ [][NextConfig]_vars

----------------------------------------------------------------------------
(* process_command after the request: the review as the interface runs it  *)
(* gesture by gesture, then the branch of process_command that acts on the *)
(* value the review returned; or Simple Mode                               *)

\* process_command in full mode reaches the review with suggestion s
\* (src/assistant.py:443-444)
StartReview(s) ==
    /\ assistant.pc = "idle"
    /\ CallProcess(s)

\* process_command in Simple Mode has obtained the command of s
\* (src/assistant.py:420-421, 505-517)
StartSimple(s) ==
    /\ assistant.pc = "idle"
    /\ status = "idle"
    /\ ~startswith(s.command, ErrorPrefix)
    /\ suggestion' = SimpleSuggestion(s.command)
    /\ assistant' = [assistant EXCEPT !.pc = "simple", !.simple_mode = TRUE]
    /\ UNCHANGED <<pc, api, status, result, exc, key, selection, panel,
                   notice, clipboard, termMode, modeAtCall, switched,
                   original_settings, session, isatty, stdin, eof, ed>>
    /\ UNCHANGED <<environ, terminal_caps, box, noticeMode, launcher, config_file>>

\* process_command_interaction has returned or raised and process_command
\* acts on it (src/assistant.py:444-496)
AfterReview ==
    /\ api = "process"
    /\ status \in {"returned", "raised"}
    /\ assistant.pc = "idle"
    /\ LET o == IF status = "raised" THEN [kind |-> exc, v |-> None]
                ELSE [kind |-> "returns", v |-> result]
       IN  \E ok \in BOOLEAN : assistant' = after_review(assistant, o, ok)
    /\ UNCHANGED <<pc, api, status, result, exc, suggestion, key, selection, panel,
                   notice, clipboard, termMode, modeAtCall, switched,
                   original_settings, session, isatty, stdin, eof, ed>>
    /\ UNCHANGED <<environ, terminal_caps, box, noticeMode, launcher, config_file>>

NextExecute ==
    \/ \E k \in UserKeys : Press(k)
    \/ CloseStdin
    \/ \E s \in Suggestions : StartReview(s)
    \/ \E s \in Suggestions : StartSimple(s)
    \/ SimpleMode
    \/ Display
    \/ ReadGesture
    \/ InterruptGesture
    \/ EndOfInput
    \/ ShowAlternatives
    \/ ReadAlternative
    \/ ShowHelp
    \/ ReadHelp
    \/ AfterReview

SpecExecute == Init /\ [][NextExecute]_vars

----------------------------------------------------------------------------
(* Edit sessions fed by the key reader: the keys pressed put their bytes   *)
(* on the terminal and the edit loop acts on what kbd.read_key() makes of  *)
(* them (src/ui.py:394, 250-298), every buffer being drawn                 *)

\* the keys pressed: the printable 'a', and keys that send escape sequences
PressedKeys == {<<"a">>, ENTER, LEFT_ARROW, DELETE, INSERT, CTRL_LEFT}

\* one pass of the edit loop on the key the blocking read returns
\* (src/ui.py:394-534)
ReadEditKey ==
    /\ pc = "edit_read"
    /\ stdin # <<>>
    /\ LET r == _read_key_unix(stdin)
           after == edit_key(ed, r.key)
       IN  /\ Len(after.ed.command) <= MaxLen
           /\ key' = r.key
           /\ stdin' = r.rest
           /\ ed' = after.ed
           /\ IF after.outcome = "return" THEN
                 /\ result' = Some(ed.command) /\ status' = "returned" /\ pc' = "done"
              ELSE IF after.outcome = "cancel" THEN
                 /\ result' = None /\ status' = "returned" /\ pc' = "done"
              ELSE UNCHANGED <<result, status, pc>>
    /\ UNCHANGED <<api, exc, suggestion, selection, panel, notice, clipboard,
                   termMode, modeAtCall, switched, original_settings, session,
                   isatty, eof>>
    /\ UNCHANGED <<assistant, environ, terminal_caps, box, noticeMode, launcher,
                   config_file>>

NextEditReader ==
    \/ \E t \in InitialTexts : StartEdit(t)
    \/ \E k \in PressedKeys : Press(k)
    \/ ReadEditKey

SpecEditReader == InitKeys /\ [][NextEditReader]_vars

----------------------------------------------------------------------------
(* Properties *)

\* the step is a read_key of the loop at position p that took bytes from
\* standard input
Reads(p) == pc = p /\ Len(stdin') < Len(stdin)

\* C1: process(suggestion) returns the current command text on Enter, the
\* current command text prefixed with 'ACCEPT:' on Tab and None on Escape,
\* and the review ends at that gesture.
C1_GestureResults ==
    [][Reads("gesture_read") =>
        LET k == read_key.key IN
        /\ (k = ENTER \/ k = NEWLINE) =>
              /\ pc' = "done" /\ status' = "returned"
              /\ result' = Some(suggestion.command)
        /\ k = TAB =>
              /\ pc' = "done" /\ status' = "returned"
              /\ result' = Some(<<"A", "C", "C", "E", "P", "T", ":">> \o suggestion.command)
        /\ k = ESC =>
              /\ pc' = "done" /\ status' = "returned"
              /\ result' = None]_vars

C1_Witness ==
    /\ api = "process" /\ pc = "done" /\ status = "returned"
    /\ key = TAB
    /\ suggestion.command = T_rm_old
    /\ result = Some(<<"A", "C", "C", "E", "P", "T", ":">> \o T_rm_old)

\* C2: Ctrl+C in the review interface copies the command and is not
\* terminal: process(suggestion) never returns because of Ctrl+C.
C2_CopyDoesNotEndReview ==
    ~(api = "process" /\ status = "returned" /\ key = CTRL_C)

C4_CursorWithinBuffer ==
    /\ 0 <= ed.cursor_pos
    /\ ed.cursor_pos <= Len(ed.command)

C4_Witness ==
    /\ pc = "edit_read" /\ key = CTRL_W
    /\ ed.initial_command = <<"a", " ">>
    /\ ed.command = <<"a">> /\ ed.cursor_pos = 0

\* the escape sequences read_key is to recognise: arrow keys, Home/End,
\* Page Up/Down, Ctrl+Arrow, Delete
EscapeSequences == {UP_ARROW, DOWN_ARROW, LEFT_ARROW, RIGHT_ARROW, HOME, END,
                    PAGE_UP, PAGE_DOWN, CTRL_LEFT, CTRL_RIGHT, DELETE}

IsPrefix(q, in) == Len(q) <= Len(in) /\ Upto(in, Len(q)) = q

\* C5: a single read_key call consumes all bytes of a recognised escape
\* sequence and returns the full sequence as one key, leaving no byte of it
\* to a later read.
C5_SequenceReadWhole ==
    [][(isatty /\ (Reads("gesture_read") \/ Reads("alternatives_read") \/ Reads("help_read"))) =>
        \A q \in EscapeSequences :
            IsPrefix(q, stdin) => key' = q /\ stdin' = From(stdin, Len(q))]_vars

\* C6: from ShowingAlternatives, a digit n with 1 <= n <= number of
\* alternatives and then Enter sets the active command to alternatives[n-1]
\* and returns to Displaying; Escape, Ctrl+C, or Enter with no selection or
\* an out-of-range one returns to Displaying with the command unchanged;
\* neither outcome ends the review.
C6_AlternativeSelection ==
    [][Reads("alternatives_read") =>
        LET k == read_key.key
            n == int(selection)
            chosen == isdigit(selection) /\ 1 <= n /\ n <= Len(suggestion.alternatives)
        IN
        /\ ((k = ENTER \/ k = NEWLINE) /\ chosen) =>
              /\ suggestion'.command = suggestion.alternatives[n]
              /\ pc' = "display" /\ status' = "running"
        /\ (k = ESC \/ k = CTRL_C \/ ((k = ENTER \/ k = NEWLINE) /\ ~chosen)) =>
              /\ suggestion' = suggestion
              /\ pc' = "display" /\ status' = "running"]_vars

\* C7: with an empty alternatives list the Ctrl+A gesture shows the 'no
\* alternatives' notice and returns to the display state, where the panel is
\* drawn again, without changing the command and without ending the review.
C7_NoAlternativesNotice ==
    [][(Reads("gesture_read") /\ read_key.key = CTRL_A /\ suggestion.alternatives = <<>>) =>
        /\ notice' = "No alternatives available"
        /\ pc' = "display" /\ status' = "running"
        /\ panel' = NoPanel
        /\ suggestion' = suggestion]_vars

C7_Witness ==
    /\ pc = "display" /\ status = "running"
    /\ key = CTRL_A
    /\ suggestion.alternatives = <<>>
    /\ notice = "No alternatives available"

\* C8: every render of the review panel shows the current command text with
\* the risk level assessed from it; after an alternative is selected the
\* next render shows the new command with its own banner.
C8_PanelShowsCurrentRisk ==
    pc = "gesture_read" =>
        /\ panel.command = suggestion.command
        /\ panel.banner = _assess_command_risk(suggestion.command)[1]

C8_Witness ==
    /\ pc = "gesture_read"
    /\ suggestion.alternatives = <<T_rm_old_star, T_sudo_ls>>
    /\ suggestion.command = T_rm_old_star
    /\ panel.command = T_rm_old_star
    /\ panel.banner = "HIGH"

\* C9: during a review the explanation, the alternatives, the context hints
\* and the flags never change, the command text changes only by selecting
\* an alternative, and a clipboard copy leaves the whole suggestion unchanged
\* whether it succeeds or fails.
C9_SuggestionFrame ==
    [][(api = "process" /\ status = "running") =>
        /\ suggestion'.explanation = suggestion.explanation
        /\ suggestion'.alternatives = suggestion.alternatives
        /\ suggestion'.context_hints = suggestion.context_hints
        /\ suggestion'.risk_level = suggestion.risk_level
        /\ suggestion'.requires_sudo = suggestion.requires_sudo
        /\ suggestion'.is_destructive = suggestion.is_destructive
        /\ suggestion'.command # suggestion.command =>
              /\ pc = "alternatives_read"
              /\ isdigit(selection)
              /\ suggestion'.command = suggestion.alternatives[int(selection)]
        /\ (pc = "gesture_read" /\ key' = CTRL_C /\ pc' = "done") =>
              suggestion' = suggestion]_vars

C9_Witness ==
    /\ api = "process" /\ status = "returned"
    /\ key = CTRL_C
    /\ notice = "Could not copy to clipboard"
    /\ suggestion = Suggestion(T_rm_old, "", <<T_rm_old_star>>, <<"Check the path">>)

\* C10: edit(initial_text) ends only by returning the buffer contents or
\* None; it never ends by raising an exception, also not on its first render.
C10_EditNeverRaises ==
    (api = "edit" /\ pc = "done") =>
        /\ status = "returned"
        /\ result = None \/ result = Some(ed.command)

\* the step handles key k in the edit loop (the loop is at its read and the
\* value read is k)
Handles(k) == pc = "edit_read" /\ key' = k

\* C11: in insert mode, for every buffer and every cursor position p with
\* 0 <= p <= len(buffer), a printable character key yields a buffer of
\* length len+1 that has the character at index p, the old characters before
\* and after it in their order, and the cursor at p+1.
C11_InsertAtCursor ==
    [][\A c \in {"a", " "} :
        (Handles(<<c>>) /\ ed.insert_mode) =>
            LET p == ed.cursor_pos IN
            /\ Len(ed'.command) = Len(ed.command) + 1
            /\ ed'.command[p + 1] = c
            /\ \A i \in 1..p : ed'.command[i] = ed.command[i]
            /\ \A i \in (p + 1)..Len(ed.command) : ed'.command[i + 1] = ed.command[i]
            /\ ed'.cursor_pos = p + 1]_vars

C11_Witness ==
    /\ pc = "edit_read" /\ key = <<"a">>
    /\ ed.insert_mode
    /\ ed.initial_command = <<" ", " ">>
    /\ ed.command = <<" ", "a", " ">> /\ ed.cursor_pos = 2

\* C12: Backspace with the cursor at 0 and Delete with the cursor at
\* len(buffer) leave buffer and cursor unchanged; elsewhere Backspace removes
\* exactly the character before the cursor and moves the cursor back by one,
\* and Delete removes exactly the character at the cursor and keeps the
\* cursor.
C12_BackspaceDelete ==
    [][LET p == ed.cursor_pos
           n == Len(ed.command)
       IN
       /\ (Handles(BACKSPACE) \/ Handles(<<"BS">>)) =>
             IF p = 0
             THEN ed'.command = ed.command /\ ed'.cursor_pos = 0
             ELSE /\ Len(ed'.command) = n - 1
                  /\ \A i \in 1..(p - 1) : ed'.command[i] = ed.command[i]
                  /\ \A i \in p..(n - 1) : ed'.command[i] = ed.command[i + 1]
                  /\ ed'.cursor_pos = p - 1
       /\ Handles(DELETE) =>
             IF p = n
             THEN ed'.command = ed.command /\ ed'.cursor_pos = n
             ELSE /\ Len(ed'.command) = n - 1
                  /\ \A i \in 1..p : ed'.command[i] = ed.command[i]
                  /\ \A i \in (p + 1)..(n - 1) : ed'.command[i] = ed.command[i + 1]
                  /\ ed'.cursor_pos = p]_vars

C12_Witness ==
    /\ pc = "edit_read" /\ key = DELETE
    /\ ed.initial_command = <<"a", " ">>
    /\ ed.command = <<" ">> /\ ed.cursor_pos = 0

C14_HistoryCursorInRange ==
    \/ ed.history_index = -1
    \/ /\ 0 <= ed.history_index
       /\ ed.history_index <= Len(ed.history) - 1
       /\ Len(ed.history) - ed.history_index \in DOMAIN ed.history

\* a later session entered with the cursor a former session left on the
\* oldest entry
C14_Witness ==
    /\ pc = "edit_read" /\ status = "running"
    /\ key = ENTER
    /\ Len(ed.history) = 2 /\ ed.history_index = 1

ReadKeyReturns ==
    pc \in {"read_blocking", "read_poll"} /\ pc' = "reader" /\ stdin # <<>>

\* the multi-character sequences that name a key in the source: the values
\* of KeyCode and the literals edit_command compares with
NamedSequences == {SHIFT_TAB, DELETE, UP_ARROW, DOWN_ARROW, LEFT_ARROW, RIGHT_ARROW,
                   HOME, END, PAGE_UP, PAGE_DOWN, CTRL_LEFT, CTRL_RIGHT,
                   CTRL_DELETE, INSERT}

\* C16: an escape byte that is not followed by a recognised sequence is
\* reported by read_key as a bare Escape key, exactly the value of
\* KeyCode.ESC, whatever bytes follow it.
C16_BareEscape ==
    [][(ReadKeyReturns /\ Head(stdin) = "ESC"
        /\ \A q \in NamedSequences : ~IsPrefix(q, stdin)) =>
            key' = ESC]_vars

\* the multi-byte values of KeyCode
KeyCodeSequences == {SHIFT_TAB, DELETE, UP_ARROW, DOWN_ARROW, LEFT_ARROW,
                     RIGHT_ARROW, HOME, END, PAGE_UP, PAGE_DOWN}

\* C17: the bytes of every multi-byte escape sequence that names a key,
\* fed to the key reader, come back as that same key both from a read with
\* the timeout 0 and from a blocking read.
C17_SequenceRoundTrip ==
    [][ReadKeyReturns =>
        \A q \in KeyCodeSequences : stdin = q => key' = q /\ stdin' = <<>>]_vars

\* the exceptions a failing read of standard input raises
InputErrors == {"EOFError", "OSError"}

\* C18: read_key never raises: no error of the input during a read, on the
\* interactive path or on the line-read fallback, end of input included,
\* comes out of read_key as an exception; the reader reports None.
C18_ReadKeyNeverRaises ==
    [][(pc \in {"gesture_read", "alternatives_read", "help_read"}) =>
        ~(status' = "raised" /\ exc' \in InputErrors)]_vars

\* the command carries a privilege-elevation prefix: the word sudo, in any
\* letter case, stands in it
PrivilegeElevation(c) == WholeWord(c, <<"s", "u", "d", "o">>)

\* C19: assess(command) applies its rules in order: HIGH and destructive if
\* a dangerous signature matches; else MEDIUM and destructive if a
\* destructive signature matches; else MEDIUM and not destructive if the
\* command carries a privilege-elevation prefix; else LOW and not
\* destructive.
C19_RiskRules ==
    pc = "gesture_read" =>
        LET c == suggestion.command IN
        /\ panel.banner = _assess_command_risk(c)[1]
        /\ _assess_command_risk(c) =
              IF dangerous_patterns(c) THEN <<"HIGH", TRUE>>
              ELSE IF destructive_patterns(c) THEN <<"MEDIUM", TRUE>>
              ELSE IF PrivilegeElevation(c) THEN <<"MEDIUM", FALSE>>
              ELSE <<"LOW", FALSE>>

Upper(c) ==
    IF \E i \in 1..26 : LowerCase[i] = c
    THEN UpperCase[CHOOSE i \in 1..26 : LowerCase[i] = c]
    ELSE c

UpperText(s) == [i \in 1..Len(s) |-> Upper(s[i])]

\* C20: the assessment depends only on the command text and not on its
\* letter case: a text, its lower-case form and its upper-case form get the
\* same (level, is_destructive); 'rm -rf /tmp/x' and 'RM -RF /tmp/x' are
\* both HIGH and 'ls -la' is LOW.
C20_RiskIgnoresCase ==
    pc = "gesture_read" =>
        LET c == suggestion.command IN
        /\ panel.banner = _assess_command_risk(c)[1]
        /\ _assess_command_risk(LowerText(c)) = _assess_command_risk(c)
        /\ _assess_command_risk(UpperText(c)) = _assess_command_risk(c)
        /\ LowerText(c) = Join(<<<<"r", "m">>, <<"-", "r", "f">>, <<"/", "t", "m", "p", "/", "x">>>>) => panel.banner = "HIGH"
        /\ c = T_ls => panel.banner = "LOW"

C20_Witness ==
    /\ pc = "gesture_read"
    /\ suggestion.command = Join(<<UpperText(<<"r", "m">>), UpperText(<<"-", "r", "f">>), <<"/", "t", "m", "p", "/", "x">>>>)
    /\ panel.banner = "HIGH"

\* C21: on every path out of the request (a suggestion, a failed request, a
\* keyboard interrupt) the loader thread has been told to stop and has
\* terminated when process_command goes on after its finally block, and the
\* loader writes no frame once the review panel has been drawn
PastFinally == assistant.pc \in {"check", "simple", "review", "reviewing", "done"}
WritesFrame == assistant.loader_thread = "write" /\ assistant'.loader_thread = "wait"
C21_LoaderJoined ==
    [][/\ PastFinally' => (assistant'.stop_event /\ assistant'.loader_thread = "terminated")
       /\ (panel # NoPanel) => ~WritesFrame]_vars
C21_Witness ==
    /\ assistant.pc = "reviewing"
    /\ panel # NoPanel
    /\ assistant.frames > 0
    /\ assistant.loader_thread = "terminated"

\* C22: a failed collaborator ends process_command with False: when the
\* request fails the review is never entered and nothing is executed, and
\* when the executed shell command fails the call returns False as well
RequestFailed ==
    assistant.in_flight = "return False" \/ startswith(suggestion.command, ErrorPrefix)
C22_CollaboratorFailures ==
    (assistant.pc = "done" /\ assistant.returned # "KeyboardInterrupt") =>
        /\ RequestFailed =>
              (assistant.returned = "False" /\ panel = NoPanel /\ assistant.executed = <<>>)
        /\ assistant.exec_failed => assistant.returned = "False"

\* C23: whichever detector ran, colour is enabled only if standard output
\* is a terminal, and TERM names a colour-capable family or a colour-forcing
\* variable is set, and no colour-disabling variable is set
ColorCapableFamily == ColorTerm(LowerText(GetOr(environ.TERM)))
ColorForced == ~environ.FORCE_COLOR.none \/ ~environ.COLORTERM.none
ColorDisabled == Truthy(environ.NO_COLOR)
C23_ColorPolicy ==
    (terminal_caps.detector # "none" /\ terminal_caps.supports_color) =>
        /\ environ.stdout_isatty
        /\ ColorCapableFamily \/ ColorForced
        /\ ~ColorDisabled

\* C24: a content line whose visible length (its length once the escape
\* sequences are stripped) is below width - 4 is printed as a row whose
\* visible length is exactly the width of the box, coloured or not
VisibleLen(s) == Len(ansi_escape_sub(s))
C24_RowFillsWidth ==
    \A i \in 1..Len(box.content) :
        (box.rows # <<>> /\ VisibleLen(box.content[i]) < box.width - 4) =>
            VisibleLen(box.rows[i + 1]) = box.width
C24_Witness ==
    /\ box.rows # <<>>
    /\ box.content = << <<"ESC", "[", "3", "1", "m", "a", "ESC", "[", "0", "m">> >>
    /\ box.width = 6
    /\ box.supports_color
    /\ VisibleLen(box.rows[2]) = 6

\* C25: the key read while the help is shown only dismisses it: the loop
\* goes back to drawing the panel, the review goes on with the same
\* suggestion, and nothing a gesture does (a result, a copy, a notice)
\* happens
C25_HelpDismissed ==
    [][Reads("help_read") =>
         /\ pc' = "display"
         /\ status' = "running"
         /\ suggestion' = suggestion
         /\ result' = result
         /\ clipboard' = clipboard
         /\ notice' = notice]_vars
C25_Witness ==
    /\ pc = "display"
    /\ status = "running"
    /\ key = TAB
    /\ panel # NoPanel

\* C26: while the review waits for a gesture, some key is a gesture that
\* starts an edit session on the command under review
GestureKeys == UserKeys \cup EditKeys \cup ReaderKeys
C26_EditGesture ==
    (api = "process" /\ pc = "gesture_read") =>
        \E k \in GestureKeys : handle_gesture_input(k, suggestion)[1] = "edit"

\* C27: a read_key() that reports None is not repeated by the loop that
\* made it: the failure ends the call, which returns or raises
C27_NoRetry ==
    [][(pc \in {"gesture_read", "alternatives_read"} /\ key' = KeyNone) =>
         status' \in {"returned", "raised"}]_vars

\* C28: a message that reports a failure or a cancellation is printed with
\* the terminal restored: the copy notices of the review are never printed
\* in raw mode, and when the review hands back to the orchestrator, which
\* prints the cancellation and failure messages, no KeyboardInput session
\* is open and the terminal is in the mode the call found it in
CopyNotices == {"Command copied to clipboard", "Could not copy to clipboard"}
AtWordStart(cmd, p) ==
    /\ p > 0 /\ p < Len(cmd)
    /\ IsSpace(cmd[p]) /\ ~IsSpace(cmd[p + 1])

C30_DeleteWordBefore ==
    [][LET p == ed.cursor_pos
           cmd == ed.command
           q == ed'.cursor_pos
       IN
       Handles(CTRL_W) =>
          IF p = 0
          THEN ed'.command = cmd /\ q = 0
          ELSE /\ q <= p
               /\ ed'.command = Upto(cmd, q) \o From(cmd, p)
               /\ \E m \in q..p :
                     /\ \A i \in (q + 1)..m : ~IsSpace(cmd[i])
                     /\ \A i \in (m + 1)..p : IsSpace(cmd[i])
                     /\ m = q => q = 0
                     /\ q > 0 => IsSpace(cmd[q])]_vars

\* Ctrl+W has removed the word and the blank before the cursor of ' a ' and
\* kept the leading blank
C30_Witness ==
    /\ pc = "edit_read" /\ key = CTRL_W
    /\ ed.initial_command = <<" ", "a">>
    /\ ed.command = <<" ">> /\ ed.cursor_pos = 1

\* a read_key call that was given a timeout (0 included) is running
TimedCall(p) == p \in {"read_poll", "read_timed"}

\* C31: read_key(timeout) with no input available returns None once the
\* timeout has elapsed, for every timeout that is given, 0 included: the call
\* never waits for a key without limit, a call that ends with no input
\* available returns None, and a call that returned None consumed no input.
C31_TimeoutReturnsNone ==
    [][/\ (TimedCall(pc') /\ ~CanRead') => pc' = "read_timed"
       /\ (TimedCall(pc) /\ pc' = "reader" /\ ~CanRead) => result' = None
       /\ (TimedCall(pc) /\ pc' = "reader" /\ result' = None) => stdin' = stdin]_vars

\* C32: without Unicode rendering a box of any of the three styles is drawn
\* with '+' at its four corners, '-' along its top and bottom borders and '|'
\* at both ends of every content row (the rows are read without their colour
\* codes).
C32_AsciiFallback ==
    (box.rows # <<>> /\ ~box.can_use_unicode) =>
        LET n == Len(box.rows)
            IsBorder(r) ==
                /\ Len(r) >= 2
                /\ r[1] = "+" /\ r[Len(r)] = "+"
                /\ \A i \in 2..(Len(r) - 1) : r[i] = "-"
            IsContent(r) ==
                /\ Len(r) >= 2
                /\ r[1] = "|" /\ r[Len(r)] = "|"
        IN  /\ IsBorder(ansi_escape_sub(box.rows[1]))
            /\ IsBorder(ansi_escape_sub(box.rows[n]))
            /\ \A i \in 2..(n - 1) : IsContent(ansi_escape_sub(box.rows[i]))

\* the UI assistant met an error while it ran
UIFailed == launcher.ui_event \in {"error", "error_unprintable"}

\* C33: when assistant.main meets an error in an interactive session, the
\* launcher runs ai_assistant.main after it: a run of the launcher in which
\* the UI assistant ran and failed does not end before the original assistant
\* has run.
C33_FallbackOnUIError ==
    (launcher.pc = "exited" /\ launcher.ran # <<>> /\ launcher.ran[1] = "assistant" /\ UIFailed) =>
        launcher.ran = <<"assistant", "ai_assistant">>

\* C34: update_config(k, value) with an unknown key or a value that is not
\* among the allowed values of the key raises ValueError and leaves the
\* configuration file as it was (absent if it was absent); with a valid pair
\* every line of the file that does not start with `k=` is at its place and
\* unchanged after the call.
C34_UpdateValidated ==
    [][LET k == config_file'.key
           value == config_file'.value
           old == readlines(config_file.content)
           new == readlines(config_file'.content)
       IN  api' = "update_config" =>
             IF validate_config(k, value)
             THEN \A i \in 1..Len(old) :
                     ~startswith(old[i], <<k, "=">>) =>
                         i <= Len(new) /\ new[i] = old[i]
             ELSE /\ exc' = "ValueError"
                  /\ config_file'.exists = config_file.exists
                  /\ config_file'.content = config_file.content]_vars

\* the gesture the last key read stands for
LastGesture == handle_gesture_input(key, suggestion)[1]

C36_EnterExecutes ==
    (assistant.pc = "done" /\ status = "returned" /\ LastGesture = "execute") =>
        /\ assistant.executed = suggestion.command
        /\ "Command ready" \notin assistant.printed
        /\ "Command execution cancelled" \notin assistant.printed

\* the characters the sessions are started on and the printable keys pressed
TypedCharacters == {"a", " "}

LoaderAlive == assistant.loader_thread \notin {"unstarted", "terminated"}

\* C38: while the loader thread is alive the main thread writes nothing to
\* the terminal: no step adds a message of the main thread to what has been
\* printed between the start of the loader thread and the end of its join.
C38_MainSilentWhileSpinning ==
    [][assistant'.printed # assistant.printed => ~LoaderAlive]_vars

\* keys of EditKeys that no branch of the edit loop handles
UnrecognisedKeys == {TAB, PAGE_UP}

\* C39: Left, Right, Home, End, Ctrl+Left, Ctrl+Right, the Insert toggle and
\* Ctrl+D on a non-empty buffer leave the buffer text unchanged; a key no
\* branch handles leaves the text, the cursor and the insert flag unchanged;
\* Ctrl+K and Delete keep the text before the cursor; Ctrl+U, Ctrl+W and
\* Backspace keep the text from the cursor on, which follows the new cursor.
C39_EditFrame ==
    [][LET p == ed.cursor_pos
           q == ed'.cursor_pos
       IN
       /\ (\E k \in {LEFT_ARROW, RIGHT_ARROW, HOME, END, CTRL_LEFT, CTRL_RIGHT, INSERT} :
              Handles(k)) => ed'.command = ed.command
       /\ (Handles(CTRL_D) /\ ed.command # <<>>) => ed'.command = ed.command
       /\ (\E k \in UnrecognisedKeys : Handles(k)) =>
              /\ ed'.command = ed.command
              /\ q = p
              /\ ed'.insert_mode = ed.insert_mode
       /\ (Handles(CTRL_K) \/ Handles(DELETE)) =>
              Upto(ed'.command, p) = Upto(ed.command, p)
       /\ (Handles(CTRL_U) \/ Handles(CTRL_W) \/ Handles(BACKSPACE)) =>
              From(ed'.command, q) = From(ed.command, p)]_vars

\* Ctrl+K with the cursor after the first character of 'a ' has cut the
\* blank and kept the 'a'
C39_Witness ==
    /\ pc = "edit_read" /\ key = CTRL_K
    /\ ed.initial_command = <<"a", " ">>
    /\ ed.command = <<"a">> /\ ed.cursor_pos = 1

====
